---- MODULE Spec2Model ----
(***************************************************************************)
(* The agent orchestration loop of ConvoIQ: the RunAgent.post driver       *)
(* (backend/routes/spa-fallback.ts), the tool executor and capability gate *)
(* (agent-tools), and the client handler that folds the event stream into  *)
(* the active conversation round (src/components/Agent.tsx).               *)
(***************************************************************************)
EXTENDS Integers, Sequences, FiniteSets, TLC

(***************************************************************************)
(* Bounds of the model.                                                    *)
(***************************************************************************)
\* The iteration cap of the agent loop (25 in the source, line 837).  The
\* history and the event log grow with every turn, so the loop is checked
\* for a small cap; the driver does the same in every turn.
maxIterations == 2
\* Tool-call deltas the model may stream over a whole run.
MaxCalls == 2
\* Text deltas the model may stream over a whole run.
MaxText == 1

(***************************************************************************)
(* Values.                                                                 *)
(***************************************************************************)
\* JavaScript's undefined (an absent property).
Undefined == "<undefined>"

\* a || '' on a string-or-undefined value.
OrEmpty(v) == IF v = Undefined \/ v = "" THEN "" ELSE v

\* The draft the request carries in body.currentState.
InitialState == [prompt |-> "p0", structuredOutput |-> "{}", uiCode |-> "u0"]

\* Text deltas of the model stream.
Deltas == {"a"}

\* The argument texts the model streams, and the JSON texts among them.
ArgsPrompt1 == "{\"new_prompt\":\"p1\"}"
ArgsPrompt2 == "{\"new_prompt\":\"p2\"}"
ArgsSchemaOk == "{\"new_schema\":\"{\\\"type\\\":\\\"object\\\"}\"}"
ArgsSchemaBad == "{\"new_schema\":\"{not json\"}"
ArgsCode1 == "{\"new_code\":\"u1\"}"
ArgsCodeCut == "{\"new_code\":\"u1\""
ArgsEmpty == "{}"
ArgsChars0 == "{\"max_chars\":0}"
ArgsChars10 == "{\"max_chars\":10}"
ArgsChars23 == "{\"max_chars\":23}"
ArgsChars40 == "{\"max_chars\":40}"
SchemaOk == "{\"type\":\"object\"}"
SchemaBad == "{not json"

\* A number-or-undefined value is <<n>> or <<>>.
NoArgs ==
    [new_prompt |-> Undefined, new_schema |-> Undefined, new_code |-> Undefined,
     test_type |-> Undefined, max_chars |-> <<>>, reasoning |-> Undefined]

\* JSON.parse on the texts above: ok, or a SyntaxError with its message.
\* An object is read into the properties the tools look up; a property the
\* text does not carry reads as undefined.
JSONParse(text) ==
    CASE text = ArgsPrompt1 -> [ok |-> TRUE, value |-> [NoArgs EXCEPT !.new_prompt = "p1"]]
      [] text = ArgsPrompt2 -> [ok |-> TRUE, value |-> [NoArgs EXCEPT !.new_prompt = "p2"]]
      [] text = ArgsSchemaOk -> [ok |-> TRUE, value |-> [NoArgs EXCEPT !.new_schema = SchemaOk]]
      [] text = ArgsSchemaBad -> [ok |-> TRUE, value |-> [NoArgs EXCEPT !.new_schema = SchemaBad]]
      [] text = ArgsCode1 -> [ok |-> TRUE, value |-> [NoArgs EXCEPT !.new_code = "u1"]]
      [] text = ArgsEmpty -> [ok |-> TRUE, value |-> NoArgs]
      [] text = ArgsChars0 -> [ok |-> TRUE, value |-> [NoArgs EXCEPT !.max_chars = <<0>>]]
      [] text = ArgsChars10 -> [ok |-> TRUE, value |-> [NoArgs EXCEPT !.max_chars = <<10>>]]
      [] text = ArgsChars23 -> [ok |-> TRUE, value |-> [NoArgs EXCEPT !.max_chars = <<23>>]]
      [] text = ArgsChars40 -> [ok |-> TRUE, value |-> [NoArgs EXCEPT !.max_chars = <<40>>]]
      [] text = SchemaOk -> [ok |-> TRUE, value |-> NoArgs]
      [] text = "{\"messageId\":\"msg-0\"}" ->
            [ok |-> TRUE, value |-> [messageId |-> "msg-0"]]
      [] text = "{\"messageId\":\"msg-0\",\"delta\":\"a\"}" ->
            [ok |-> TRUE, value |-> [messageId |-> "msg-0", delta |-> "a"]]
      [] text = "{\"messageId\":\"msg-0\",\"delta\":\"\\n\"}" ->
            [ok |-> TRUE, value |-> [messageId |-> "msg-0", delta |-> "\n"]]
      [] text = "{\"message\":\"stream failed\"}" ->
            [ok |-> TRUE, value |-> [message |-> "stream failed"]]
      [] OTHER -> [ok |-> FALSE, message |-> "Unexpected token in JSON"]

\* JSON.stringify: an encoding of the value, distinct from the value.
JSONStringify(v) == <<"json", v>>

(***************************************************************************)
(* Capability gate: getAgentTools.                                         *)
(***************************************************************************)
ReadOnlyTools == <<"read_current_component", "get_conversation_transcript", "test_component">>

\* Mutant: edit_ui_code is offered whatever its flag.
getAgentToolsUngated(editModes) ==
    ReadOnlyTools
      \o (IF editModes.editPrompt THEN <<"edit_prompt">> ELSE <<>>)
      \o (IF editModes.editData THEN <<"edit_structured_output">> ELSE <<>>)
      \o <<"edit_ui_code">>

getAgentTools(editModes) ==
    ReadOnlyTools
      \o (IF editModes.editPrompt THEN <<"edit_prompt">> ELSE <<>>)
      \o (IF editModes.editData THEN <<"edit_structured_output">> ELSE <<>>)
      \o (IF editModes.editUICode THEN <<"edit_ui_code">> ELSE <<>>)

(***************************************************************************)
(* Tool executor: AgentToolHandler.  Each operation gives the component    *)
(* after the call and either the returned result or the thrown error.      *)
(***************************************************************************)
Returned(comp, result) == [threw |-> FALSE, component |-> comp, result |-> result]
Threw(comp, message) == [threw |-> TRUE, component |-> comp, message |-> message]

readCurrentComponent(comp) ==
    Returned(comp, [prompt |-> OrEmpty(comp.prompt),
                    structuredOutput |-> OrEmpty(comp.structuredOutput),
                    uiCode |-> OrEmpty(comp.uiCode)])

\* Mutant: the new prompt is acknowledged but not written to the draft.
editPromptUnsaved(comp, newPrompt, reasoning) ==
    Returned(comp, [success |-> TRUE, reasoning |-> reasoning])

editPrompt(comp, newPrompt, reasoning) ==
    Returned([comp EXCEPT !.prompt = newPrompt],
             [success |-> TRUE, reasoning |-> reasoning])

\* Mutant: the schema is written without being validated.
editStructuredOutputUnvalidated(comp, newSchema, reasoning) ==
    Returned([comp EXCEPT !.structuredOutput = newSchema],
             [success |-> TRUE, reasoning |-> reasoning])

editStructuredOutput(comp, newSchema, reasoning) ==
    IF ~JSONParse(newSchema).ok
    THEN Returned(comp, [success |-> FALSE,
                         error |-> "Invalid JSON schema: " \o JSONParse(newSchema).message])
    ELSE Returned([comp EXCEPT !.structuredOutput = newSchema],
                  [success |-> TRUE, reasoning |-> reasoning])

\* Mutant: the new code is acknowledged but not written to the draft.
editUICodeUnsaved(comp, newCode, reasoning) ==
    Returned(comp, [success |-> TRUE, reasoning |-> reasoning])

editUICode(comp, newCode, reasoning) ==
    Returned([comp EXCEPT !.uiCode = newCode],
             [success |-> TRUE, reasoning |-> reasoning])

\* Mutant: the test empties the draft's code.
testComponentClearsCode(comp, testType) ==
    Returned([comp EXCEPT !.uiCode = ""], [success |-> TRUE, testType |-> testType])

testComponent(comp, testType) ==
    Returned(comp, [success |-> TRUE, testType |-> testType])

\* The pairs <<a, b>> with 1 <= a <= b <= 200 for which 100 * a / b lies
\* halfway between two integers and the double (a / b) * 100 lies below it:
\* a / b is rounded to 53 bits before it is multiplied, e.g. 23 / 40 is
\* 0.57499999999999996 and (23 / 40) * 100 is 57.49999999999999.
DoubleBelowHalf ==
    { <<23, 40>>, <<46, 80>>, <<69, 120>>, <<92, 160>>,
      <<29, 200>>, <<57, 200>>, <<113, 200>>, <<115, 200>> }

\* Line 285: Math.round((a / b) * 100) in double arithmetic, for
\* 1 <= a <= b <= 200.  Math.round rounds a half up; the double differs
\* from the exact 100 * a / b by less than the distance of any exact value
\* that is not a half from the nearest half, so the result is the rounded
\* exact value except for the pairs of DoubleBelowHalf.
MathRoundPercent(a, b) ==
    IF <<a, b>> \in DoubleBelowHalf
    THEN (100 * a) \div b
    ELSE (200 * a + b) \div (2 * b)

\* The transcript is fetched from the conversation store and from S3; env
\* says whether the fetch succeeds and how long the transcript is.  The
\* result's legacy properties repeat those of metadata; the transcript text
\* and the conversation's own metadata are left out.
getConversationTranscript(comp, maxChars, env) ==
    LET limit == IF maxChars = <<>> \/ maxChars = <<0>> THEN 5000 ELSE maxChars[1]
        fullLength == env.transcriptLen
        isTruncated == fullLength > limit
        returnedChars == IF isTruncated THEN limit ELSE fullLength
        percentageFetched == MathRoundPercent(returnedChars, fullLength)
    IN  IF ~env.fetchOk
        THEN Returned(comp, [success |-> FALSE, error |-> "Failed to fetch transcript"])
        ELSE Returned(comp, [success |-> TRUE,
                             metadata |->
                                [totalCharacters |-> fullLength,
                                 returnedCharacters |-> returnedChars,
                                 percentageFetched |-> ToString(percentageFetched) \o "%",
                                 truncated |-> isTruncated],
                             totalCharacters |-> fullLength,
                             returnedCharacters |-> returnedChars,
                             truncated |-> isTruncated])

executeTool(comp, toolName, args, env) ==
    CASE toolName = "read_current_component" -> readCurrentComponent(comp)
      [] toolName = "edit_prompt" -> editPrompt(comp, args.new_prompt, args.reasoning)
      [] toolName = "edit_structured_output" ->
            editStructuredOutput(comp, args.new_schema, args.reasoning)
      [] toolName = "edit_ui_code" -> editUICode(comp, args.new_code, args.reasoning)
      [] toolName = "test_component" -> testComponent(comp, args.test_type)
      [] toolName = "get_conversation_transcript" ->
            getConversationTranscript(comp, args.max_chars, env)
      [] OTHER -> Threw(comp, "Unknown tool: " \o toolName)

(***************************************************************************)
(* State.                                                                  *)
(***************************************************************************)
VARIABLES
    pc,                   \* where RunAgent.post's stream callback stands
    clientReady,          \* getOpenRouterClient() returns a client
    editModes,            \* body.editModes
    currentState,         \* body.currentState
    env,                  \* the transcript store, as the tools see it
    component,            \* toolHandler.component, the in-memory draft
    agentTools,           \* the tool list offered to the model
    messages,             \* the rolling history passed to the model
    messageIdCounter,
    iteration,
    currentMessageId,
    accumulatedContent,
    accumulatedToolCalls,
    toolCalls,            \* the tool calls of the turn still to be processed
    toolArgs,             \* the parsed arguments of the tool call in execution
    events,               \* every (event, data) handed to send, in order
    modelCalls,           \* number of client.chat.send calls made
    callsLeft,            \* tool-call deltas the model may still stream
    textLeft,             \* text deltas the model may still stream
    toolInputs,           \* the tool calls the model of this run may stream
    textInputs,           \* the text deltas the model of this run may stream
    failed,               \* the callback's catch block has been entered
    conversationRounds,   \* Agent.tsx: the rounds of the chat
    currentMessageText,   \* Agent.tsx: text of the message being built
    callerState,          \* ComponentId.tsx: the draft the page holds
    statusMessage,        \* Agent.tsx: the status line
    received,             \* every (event, data) runAgent handed to onEvent, in order
    toolDeltas,           \* the tool-call deltas the current stream has yielded
    wire,                 \* the response body: text enqueued and not yet read
    buffer,               \* runAgent: the text read and not yet split into lines
    pendingUpdates,       \* Agent.tsx: state updaters queued for the next render
    isRunning,            \* Agent.tsx: the isRunning state of the component
    runs,                 \* Agent.tsx: the calls of runAgentPrompt made, in order
    now                   \* the value Date.now() last returned

\* The Agent component beyond the one run a specification follows.
pageVars == <<isRunning, runs, now>>

\* What the steps of one run leave as they find it.
inputVars == <<toolInputs, textInputs, clientReady, editModes, currentState, env, pageVars>>
serverVars ==
    <<pc, inputVars, failed, component, agentTools, messages,
      messageIdCounter, iteration, currentMessageId, accumulatedContent,
      accumulatedToolCalls, toolCalls, toolArgs, events, modelCalls, callsLeft, textLeft,
      toolDeltas>>
clientVars ==
    <<conversationRounds, currentMessageText, callerState, statusMessage, received>>
wireVars == <<wire, buffer, pendingUpdates>>
vars == <<serverVars, clientVars, wireVars>>

\* The id runAgentPrompt gives the round of this run.
roundId == "round-1"

(***************************************************************************)
(* Client: the onEvent handler of runAgentPrompt, on the state             *)
(* c = [conversationRounds, currentMessageText, callerState, statusMessage]*)
(***************************************************************************)
AppendToRound(rounds, id, msg) ==
    [i \in DOMAIN rounds |->
        IF rounds[i].id = id
        THEN [rounds[i] EXCEPT !.messages = Append(@, msg)]
        ELSE rounds[i]]

\* Mutant: the content of every message of the round is replaced.
SetContentOfAll(rounds, id, messageId, text) ==
    [i \in DOMAIN rounds |->
        IF rounds[i].id = id
        THEN [rounds[i] EXCEPT !.messages =
                [j \in DOMAIN @ |-> [@[j] EXCEPT !.content = text]]]
        ELSE rounds[i]]

SetContent(rounds, id, messageId, text) ==
    [i \in DOMAIN rounds |->
        IF rounds[i].id = id
        THEN [rounds[i] EXCEPT !.messages =
                [j \in DOMAIN @ |->
                    IF @[j].id = messageId THEN [@[j] EXCEPT !.content = text] ELSE @[j]]]
        ELSE rounds[i]]

\* Mutant: the page keeps its draft.
onStateChangeIgnored(state, newState) == state

\* ComponentId's onStateChange: the three draft fields are replaced.
onStateChange(state, newState) ==
    [state EXCEPT !.prompt = newState.prompt,
                  !.structuredOutput = newState.structuredOutput,
                  !.uiCode = newState.uiCode]

\* Mutant: a chunk replaces the text of the message by its delta.
onEventLastDelta(c, event, data) ==
    CASE event = "message_start" ->
            [c EXCEPT !.currentMessageText = "",
                      !.conversationRounds = AppendToRound(@, roundId,
                          [id |-> data.messageId, type |-> "assistant", content |-> ""])]
      [] event = "message_chunk" ->
            [c EXCEPT !.currentMessageText = data.delta,
                      !.conversationRounds = SetContent(@, roundId, data.messageId,
                          data.delta)]
      [] event = "message_complete" -> c
      [] event = "tool_call" ->
            [c EXCEPT !.conversationRounds = AppendToRound(@, roundId,
                          [id |-> data.id, type |-> "tool_call", content |-> data.toolName,
                           metadata |-> [toolName |-> data.toolName, args |-> data.args]])]
      [] event = "tool_result" ->
            [c EXCEPT !.conversationRounds = AppendToRound(@, roundId,
                          [id |-> data.id, type |-> "tool_result",
                           content |-> JSONStringify(data.result),
                           metadata |-> [toolName |-> data.toolName,
                                         result |-> data.result]])]
      [] event = "agent_complete" ->
            \* data.updatedState is an object in every agent_complete sent
            [c EXCEPT !.callerState = onStateChange(@, data.updatedState),
                      !.statusMessage = "Agent completed successfully"]
      [] event = "error" ->
            [c EXCEPT !.conversationRounds = AppendToRound(@, roundId,
                          \* the id is 'error-' + Date.now()
                          [id |-> "error-now", type |-> "error", content |-> data.message]),
                      !.statusMessage = data.message]
      [] OTHER -> c

\* The handler of the run whose round has the id id.
onEventOfRun(id, c, event, data) ==
    CASE event = "message_start" ->
            [c EXCEPT !.currentMessageText = "",
                      !.conversationRounds = AppendToRound(@, id,
                          [id |-> data.messageId, type |-> "assistant", content |-> ""])]
      [] event = "message_chunk" ->
            [c EXCEPT !.currentMessageText = @ \o data.delta,
                      !.conversationRounds = SetContent(@, id, data.messageId,
                          c.currentMessageText \o data.delta)]
      [] event = "message_complete" -> c
      [] event = "tool_call" ->
            [c EXCEPT !.conversationRounds = AppendToRound(@, id,
                          [id |-> data.id, type |-> "tool_call", content |-> data.toolName,
                           metadata |-> [toolName |-> data.toolName, args |-> data.args]])]
      [] event = "tool_result" ->
            [c EXCEPT !.conversationRounds = AppendToRound(@, id,
                          [id |-> data.id, type |-> "tool_result",
                           content |-> JSONStringify(data.result),
                           metadata |-> [toolName |-> data.toolName,
                                         result |-> data.result]])]
      [] event = "agent_complete" ->
            \* data.updatedState is an object in every agent_complete sent
            [c EXCEPT !.callerState = onStateChange(@, data.updatedState),
                      !.statusMessage = "Agent completed successfully"]
      [] event = "error" ->
            [c EXCEPT !.conversationRounds = AppendToRound(@, id,
                          \* the id is 'error-' + Date.now()
                          [id |-> "error-now", type |-> "error", content |-> data.message]),
                      !.statusMessage = data.message]
      [] OTHER -> c

onEvent(c, event, data) == onEventOfRun(roundId, c, event, data)

\* The updaters the handler passes to setConversationRounds for an event.
\* The message an updater appends is built when the event is handled; the
\* updater of message_chunk reads currentMessageText when it is applied.
RoundsUpdate(event, data) ==
    CASE event = "message_start" ->
            <<[op |-> "append",
               message |-> [id |-> data.messageId, type |-> "assistant", content |-> ""]]>>
      [] event = "message_chunk" -> <<[op |-> "content", messageId |-> data.messageId]>>
      [] event = "tool_call" ->
            <<[op |-> "append",
               message |-> [id |-> data.id, type |-> "tool_call", content |-> data.toolName,
                            metadata |-> [toolName |-> data.toolName, args |-> data.args]]]>>
      [] event = "tool_result" ->
            <<[op |-> "append",
               message |-> [id |-> data.id, type |-> "tool_result",
                            content |-> JSONStringify(data.result),
                            metadata |-> [toolName |-> data.toolName,
                                          result |-> data.result]]]>>
      [] event = "error" ->
            <<[op |-> "append",
               message |-> [id |-> "error-now", type |-> "error", content |-> data.message]]>>
      [] OTHER -> <<>>

\* The queued updaters applied in order when currentMessageText is text.
RECURSIVE ApplyUpdates(_, _, _)
ApplyUpdates(rounds, updates, text) ==
    IF updates = <<>> THEN rounds
    ELSE LET u == Head(updates)
         IN  ApplyUpdates(IF u.op = "append"
                          THEN AppendToRound(rounds, roundId, u.message)
                          ELSE SetContent(rounds, roundId, u.messageId, text),
                          Tail(updates), text)

RECURSIVE Deliver(_, _)
Deliver(c, out) ==
    IF out = <<>> THEN c
    ELSE Deliver(onEvent(c, Head(out).event, Head(out).data), Tail(out))

(***************************************************************************)
(* createSSEStream's send: each event is framed and enqueued in call       *)
(* order; the frames reach the client's handler in that order.             *)
(***************************************************************************)
Ev(event, data) == [event |-> event, data |-> data]

Send(out) ==
    LET c == Deliver([conversationRounds |-> conversationRounds,
                      currentMessageText |-> currentMessageText,
                      callerState |-> callerState,
                      statusMessage |-> statusMessage], out)
    IN  /\ events' = events \o out
        /\ received' = received \o out
        /\ conversationRounds' = c.conversationRounds
        /\ currentMessageText' = c.currentMessageText
        /\ callerState' = c.callerState
        /\ statusMessage' = c.statusMessage

(***************************************************************************)
(* Driver: the callback RunAgent.post hands to createSSEStream.            *)
(***************************************************************************)
\* Mutant: after the error event the run still sends agent_complete.
CatchThenComplete(message) ==
    /\ Send(<<Ev("error", [message |-> message]),
              Ev("agent_complete",
                 [success |-> TRUE,
                  updatedState |-> [prompt |-> OrEmpty(component.prompt),
                                    structuredOutput |-> OrEmpty(component.structuredOutput),
                                    uiCode |-> OrEmpty(component.uiCode)]])>>)
    /\ failed' = TRUE
    /\ pc' = "done"

\* The inner catch: send('error', { message }), and the callback returns.
Catch(message) ==
    /\ Send(<<Ev("error", [message |-> message])>>)
    /\ failed' = TRUE
    /\ pc' = "done"

\* Lines 766-837: the client, the component built from currentState, the
\* tool handler, the gated tool list and the initial history.
Start ==
    /\ pc = "start"
    /\ IF ~clientReady
       THEN /\ Catch("OpenRouter client not initialized")
            /\ UNCHANGED <<component, agentTools, messages>>
       ELSE /\ component' = [prompt |-> currentState.prompt,
                             structuredOutput |-> currentState.structuredOutput,
                             uiCode |-> currentState.uiCode]
            /\ agentTools' = getAgentTools(editModes)
            /\ messages' = <<[role |-> "system", content |-> "AGENT_SYSTEM_PROMPT"],
                             [role |-> "user", content |-> "agentUserPrompt"]>>
            /\ pc' = "loop"
            /\ UNCHANGED <<events, clientVars, failed>>
    /\ messageIdCounter' = 0
    /\ iteration' = 0
    /\ UNCHANGED <<inputVars, wireVars, toolDeltas, currentMessageId,
                   accumulatedContent, accumulatedToolCalls, toolCalls, toolArgs,
                   modelCalls, callsLeft, textLeft>>

\* Mutant: the loop admits one iteration too many.
LoopConditionOffByOne(it) == it <= maxIterations

\* Line 839: while (iteration < maxIterations).
LoopCondition(it) == it < maxIterations

\* Lines 839-859: one more iteration; client.chat.send either rejects or
\* gives the stream, and message_start is sent.
ModelCall ==
    /\ pc = "loop"
    /\ LoopCondition(iteration)
    /\ iteration' = iteration + 1
    /\ modelCalls' = modelCalls + 1
    /\ \E sendOk \in BOOLEAN :
        IF ~sendOk
        THEN /\ Catch("chat.send failed")
             /\ UNCHANGED <<messageIdCounter, currentMessageId, accumulatedContent,
                            accumulatedToolCalls>>
        ELSE /\ currentMessageId' = "msg-" \o ToString(messageIdCounter)
             /\ messageIdCounter' = messageIdCounter + 1
             /\ accumulatedContent' = ""
             /\ accumulatedToolCalls' = <<>>
             /\ Send(<<Ev("message_start", [messageId |-> "msg-" \o ToString(messageIdCounter)])>>)
             /\ pc' = "stream"
             /\ UNCHANGED failed
    /\ toolDeltas' = <<>>
    /\ UNCHANGED <<inputVars, wireVars, component, agentTools,
                   messages, toolCalls, toolArgs, callsLeft, textLeft>>

\* Line 839, condition false: the loop is left.
LoopExit ==
    /\ pc = "loop"
    /\ ~LoopCondition(iteration)
    /\ pc' = "exit"
    /\ UNCHANGED <<inputVars, wireVars, toolDeltas, failed, component, agentTools,
                   messages, messageIdCounter, iteration, currentMessageId,
                   accumulatedContent, accumulatedToolCalls, toolCalls, toolArgs, events,
                   modelCalls, callsLeft, textLeft, clientVars>>

\* Mutant: a text delta is put in front of the text accumulated so far.
StreamTextPrepend(d) ==
    /\ pc = "stream"
    /\ textLeft > 0
    /\ textLeft' = textLeft - 1
    /\ accumulatedContent' = d \o accumulatedContent
    /\ Send(<<Ev("message_chunk", [messageId |-> currentMessageId, delta |-> d])>>)
    /\ UNCHANGED <<pc, inputVars, wireVars, toolDeltas, failed, component, agentTools,
                   messages, messageIdCounter, iteration, currentMessageId,
                   accumulatedToolCalls, toolCalls, toolArgs, modelCalls, callsLeft>>

\* Lines 865-871: a chunk with a text delta.  A chunk of the stream carries
\* a text delta or a tool-call delta; a chunk with both acts as the two in
\* that order.
StreamText(d) ==
    /\ pc = "stream"
    /\ textLeft > 0
    /\ textLeft' = textLeft - 1
    /\ accumulatedContent' = accumulatedContent \o d
    /\ Send(<<Ev("message_chunk", [messageId |-> currentMessageId, delta |-> d])>>)
    /\ UNCHANGED <<pc, inputVars, wireVars, toolDeltas, failed, component, agentTools,
                   messages, messageIdCounter, iteration, currentMessageId,
                   accumulatedToolCalls, toolCalls, toolArgs, modelCalls, callsLeft>>

\* Mutant: a fragment replaces the name and the arguments of its slot.
AccumulateLatest(acc, d) ==
    LET n == IF d.index + 1 > Len(acc) THEN d.index + 1 ELSE Len(acc)
        grown == [i \in 1..n |-> IF i <= Len(acc) THEN acc[i] ELSE
                    [defined |-> FALSE, id |-> "", name |-> "", arguments |-> ""]]
        slot == IF grown[d.index + 1].defined
                THEN grown[d.index + 1]
                ELSE [defined |-> TRUE, id |-> d.id, name |-> "", arguments |-> ""]
        withId == IF d.id # "" THEN [slot EXCEPT !.id = d.id] ELSE slot
        withName == IF d.name # "" THEN [withId EXCEPT !.name = d.name] ELSE withId
        withArgs == IF d.arguments # ""
                    THEN [withName EXCEPT !.arguments = d.arguments] ELSE withName
    IN  [grown EXCEPT ![d.index + 1] = withArgs]

\* accumulatedToolCalls is a JavaScript array written by position: a slot
\* never written is a hole (defined = FALSE).
Hole == [defined |-> FALSE, id |-> "", name |-> "", arguments |-> ""]

\* Lines 877-900: one tool-call delta is folded into the slot at its index
\* (counted from 0); absent and empty fields of the delta are both "".
Accumulate(acc, d) ==
    LET n == IF d.index + 1 > Len(acc) THEN d.index + 1 ELSE Len(acc)
        grown == [i \in 1..n |-> IF i <= Len(acc) THEN acc[i] ELSE Hole]
        slot == IF grown[d.index + 1].defined
                THEN grown[d.index + 1]
                ELSE [defined |-> TRUE, id |-> d.id, name |-> "", arguments |-> ""]
        withId == IF d.id # "" THEN [slot EXCEPT !.id = d.id] ELSE slot
        withName == IF d.name # "" THEN [withId EXCEPT !.name = @ \o d.name] ELSE withId
        withArgs == IF d.arguments # ""
                    THEN [withName EXCEPT !.arguments = @ \o d.arguments] ELSE withName
    IN  [grown EXCEPT ![d.index + 1] = withArgs]

\* The tool calls the model streams: a tool name with an argument text.
ToolCallInputs ==
    { [name |-> "edit_prompt", arguments |-> ArgsPrompt1],
      [name |-> "edit_prompt", arguments |-> ArgsPrompt2],
      [name |-> "edit_ui_code", arguments |-> ArgsCodeCut],
      [name |-> "no_such_tool", arguments |-> ArgsEmpty] }

\* Lines 873-902: a chunk with the tool-call delta d.
StreamToolCallDelta(d) ==
    /\ pc = "stream"
    /\ callsLeft > 0
    /\ callsLeft' = callsLeft - 1
    /\ accumulatedToolCalls' = Accumulate(accumulatedToolCalls, d)
    /\ toolDeltas' = Append(toolDeltas, d)
    /\ UNCHANGED <<pc, inputVars, wireVars, failed, component, agentTools,
                   messages, messageIdCounter, iteration, currentMessageId,
                   accumulatedContent, toolCalls, toolArgs, events, modelCalls, textLeft,
                   clientVars>>

\* Lines 873-902: a chunk with a tool-call delta, here a whole tool call at
\* the next free index.
StreamToolCall(k) ==
    StreamToolCallDelta([index |-> Len(accumulatedToolCalls),
                         id |-> "call-" \o ToString(modelCalls) \o "-"
                                  \o ToString(Len(accumulatedToolCalls)),
                         name |-> k.name, arguments |-> k.arguments])

\* Line 862: the stream's iterator throws.
StreamThrow ==
    /\ pc = "stream"
    /\ Catch("stream failed")
    /\ UNCHANGED <<inputVars, wireVars, toolDeltas, component, agentTools,
                   messages, messageIdCounter, iteration, currentMessageId,
                   accumulatedContent, accumulatedToolCalls, toolCalls, toolArgs,
                   modelCalls, callsLeft, textLeft>>

\* Mutant: the pending tool calls are taken from the highest position down.
DefinedReversed(acc) ==
    LET kept == SelectSeq(acc, LAMBDA tc : tc.defined)
    IN  [i \in 1..Len(kept) |-> kept[Len(kept) + 1 - i]]

\* accumulatedToolCalls.filter(tc => tc !== undefined)
Defined(acc) == SelectSeq(acc, LAMBDA tc : tc.defined)

\* Mutant: the driver takes every turn for a turn with tool calls.
HasToolCallsAlways(tcs) == TRUE

\* Line 926: if (toolCalls && toolCalls.length > 0)
HasToolCalls(tcs) == Len(tcs) > 0

\* Lines 905-926, 1020-1022: the stream has ended; message_complete, the
\* assistant message, and either the tool loop or the break.
StreamEnd ==
    /\ pc = "stream"
    /\ Send(<<Ev("message_complete",
                 [messageId |-> currentMessageId, content |-> accumulatedContent])>>)
    /\ messages' = Append(messages,
          [role |-> "assistant", content |-> accumulatedContent,
           toolCalls |-> IF Len(accumulatedToolCalls) > 0
                         THEN Defined(accumulatedToolCalls) ELSE <<>>])
    /\ toolCalls' = IF Len(accumulatedToolCalls) > 0
                    THEN Defined(accumulatedToolCalls) ELSE <<>>
    /\ pc' = IF HasToolCalls(toolCalls')
             THEN (IF toolCalls' = <<>> THEN "loop" ELSE "tools")
             ELSE "exit"
    /\ UNCHANGED <<inputVars, wireVars, toolDeltas, failed, component, agentTools,
                   messageIdCounter, iteration, currentMessageId, accumulatedContent,
                   accumulatedToolCalls, toolArgs, modelCalls, callsLeft, textLeft>>

\* Mutant: after a tool call the driver goes on to the next model call.
AfterToolCallNextTurn == "loop"

\* After a tool call of the turn: the next one, or `continue` (line 1017).
AfterToolCall == IF Tail(toolCalls) = <<>> THEN "loop" ELSE "tools"

\* Mutant: the failure result does not carry the raw argument text.
ParseErrorResultNoRaw(message, raw) ==
    [error |-> "Failed to parse arguments: " \o message]

\* Lines 942-945: the result recorded for arguments that do not parse.  It
\* has no success property; the tool_result event carries success: false.
ParseErrorResult(message, raw) ==
    [error |-> "Failed to parse arguments: " \o message, rawArguments |-> raw]

\* Mutant: on a parse failure the tool_result is sent before the tool_call.
ToolCallParseResultFirst ==
    /\ pc = "tools"
    /\ LET toolCall == Head(toolCalls)
           text == IF toolCall.arguments = "" THEN "{}" ELSE toolCall.arguments
           parsed == JSONParse(text)
       IN  IF ~parsed.ok
           THEN LET errorResult == ParseErrorResult(parsed.message, toolCall.arguments)
                IN  /\ messages' = Append(messages,
                          [role |-> "tool", toolCallId |-> toolCall.id,
                           content |-> JSONStringify(errorResult)])
                    /\ Send(<<Ev("tool_result",
                                 [id |-> "result-" \o ToString(messageIdCounter + 1),
                                  toolName |-> toolCall.name,
                                  result |-> errorResult, success |-> FALSE]),
                              Ev("tool_call",
                                 [id |-> "tool-" \o ToString(messageIdCounter),
                                  toolName |-> toolCall.name,
                                  args |-> [raw |-> toolCall.arguments]])>>)
                    /\ messageIdCounter' = messageIdCounter + 2
                    /\ toolCalls' = Tail(toolCalls)
                    /\ pc' = AfterToolCall
                    /\ UNCHANGED toolArgs
           ELSE /\ Send(<<Ev("tool_call",
                             [id |-> "tool-" \o ToString(messageIdCounter),
                              toolName |-> toolCall.name,
                              args |-> parsed.value])>>)
                /\ messageIdCounter' = messageIdCounter + 1
                /\ toolArgs' = parsed.value
                /\ pc' = "exec"
                /\ UNCHANGED <<messages, toolCalls>>
    /\ UNCHANGED <<inputVars, wireVars, toolDeltas, failed, component, agentTools,
                   iteration, currentMessageId, accumulatedContent, accumulatedToolCalls,
                   modelCalls, callsLeft, textLeft>>

\* Lines 931-975: the next tool call's arguments are parsed.  On a parse
\* failure the failure result is recorded and both events are sent, the
\* tool_call carrying the raw argument text (args.raw here); else the
\* tool_call event is sent and the tool is executed next.
ToolCallParse ==
    /\ pc = "tools"
    /\ LET toolCall == Head(toolCalls)
           text == IF toolCall.arguments = "" THEN "{}" ELSE toolCall.arguments
           parsed == JSONParse(text)
       IN  IF ~parsed.ok
           THEN LET errorResult == ParseErrorResult(parsed.message, toolCall.arguments)
                IN  /\ messages' = Append(messages,
                          [role |-> "tool", toolCallId |-> toolCall.id,
                           content |-> JSONStringify(errorResult)])
                    /\ Send(<<Ev("tool_call",
                                 [id |-> "tool-" \o ToString(messageIdCounter),
                                  toolName |-> toolCall.name,
                                  args |-> [raw |-> toolCall.arguments]]),
                              Ev("tool_result",
                                 [id |-> "result-" \o ToString(messageIdCounter + 1),
                                  toolName |-> toolCall.name,
                                  result |-> errorResult, success |-> FALSE])>>)
                    /\ messageIdCounter' = messageIdCounter + 2
                    /\ toolCalls' = Tail(toolCalls)
                    /\ pc' = AfterToolCall
                    /\ UNCHANGED toolArgs
           ELSE /\ Send(<<Ev("tool_call",
                             [id |-> "tool-" \o ToString(messageIdCounter),
                              toolName |-> toolCall.name,
                              args |-> parsed.value])>>)
                /\ messageIdCounter' = messageIdCounter + 1
                /\ toolArgs' = parsed.value
                /\ pc' = "exec"
                /\ UNCHANGED <<messages, toolCalls>>
    /\ UNCHANGED <<inputVars, wireVars, toolDeltas, failed, component, agentTools,
                   iteration, currentMessageId, accumulatedContent, accumulatedToolCalls,
                   modelCalls, callsLeft, textLeft>>

\* Mutant: no try/catch around executeTool, so a throwing tool reaches the
\* callback's catch block.
ToolExecuteUncaught ==
    /\ pc = "exec"
    /\ LET toolCall == Head(toolCalls)
           r == executeTool(component, toolCall.name, toolArgs, env)
       IN  IF r.threw
           THEN /\ Catch(r.message)
                /\ UNCHANGED <<component, messages, messageIdCounter, toolCalls>>
           ELSE /\ component' = r.component
                /\ messages' = Append(messages,
                      [role |-> "tool", toolCallId |-> toolCall.id,
                       content |-> JSONStringify(r.result)])
                /\ Send(<<Ev("tool_result",
                             [id |-> "result-" \o ToString(messageIdCounter),
                              toolName |-> toolCall.name,
                              result |-> r.result, success |-> TRUE])>>)
                /\ messageIdCounter' = messageIdCounter + 1
                /\ toolCalls' = Tail(toolCalls)
                /\ pc' = AfterToolCall
                /\ UNCHANGED failed
    /\ UNCHANGED <<inputVars, wireVars, toolDeltas, agentTools, iteration, currentMessageId, accumulatedContent,
                   accumulatedToolCalls, toolArgs, modelCalls, callsLeft, textLeft>>

\* Mutant: the id of a tool_result is numbered by the turn.
ToolExecuteIdByTurn ==
    /\ pc = "exec"
    /\ LET toolCall == Head(toolCalls)
           r == executeTool(component, toolCall.name, toolArgs, env)
           result == IF r.threw THEN [error |-> r.message] ELSE r.result
       IN  /\ component' = r.component
           /\ messages' = Append(messages,
                 [role |-> "tool", toolCallId |-> toolCall.id,
                  content |-> JSONStringify(result)])
           /\ Send(<<Ev("tool_result",
                        [id |-> "result-" \o ToString(iteration),
                         toolName |-> toolCall.name,
                         result |-> result, success |-> ~r.threw])>>)
    /\ messageIdCounter' = messageIdCounter + 1
    /\ toolCalls' = Tail(toolCalls)
    /\ pc' = AfterToolCall
    /\ UNCHANGED <<inputVars, wireVars, toolDeltas, failed, agentTools, iteration,
                   currentMessageId, accumulatedContent, accumulatedToolCalls, toolArgs,
                   modelCalls, callsLeft, textLeft>>

\* Mutant: the error of a throwing tool is reported but not appended to the
\* history.
ToolExecuteThrowUnrecorded ==
    /\ pc = "exec"
    /\ LET toolCall == Head(toolCalls)
           r == executeTool(component, toolCall.name, toolArgs, env)
           result == IF r.threw THEN [error |-> r.message] ELSE r.result
       IN  /\ component' = r.component
           /\ messages' = IF r.threw THEN messages
                          ELSE Append(messages,
                                  [role |-> "tool", toolCallId |-> toolCall.id,
                                   content |-> JSONStringify(result)])
           /\ Send(<<Ev("tool_result",
                        [id |-> "result-" \o ToString(messageIdCounter),
                         toolName |-> toolCall.name,
                         result |-> result, success |-> ~r.threw])>>)
    /\ messageIdCounter' = messageIdCounter + 1
    /\ toolCalls' = Tail(toolCalls)
    /\ pc' = AfterToolCall
    /\ UNCHANGED <<inputVars, wireVars, toolDeltas, failed, agentTools, iteration,
                   currentMessageId, accumulatedContent, accumulatedToolCalls, toolArgs,
                   modelCalls, callsLeft, textLeft>>

\* Lines 977-1013: the tool is executed; its result, or the error it threw,
\* is appended to the history and sent as tool_result.
ToolExecute ==
    /\ pc = "exec"
    /\ LET toolCall == Head(toolCalls)
           r == executeTool(component, toolCall.name, toolArgs, env)
           result == IF r.threw THEN [error |-> r.message] ELSE r.result
       IN  /\ component' = r.component
           /\ messages' = Append(messages,
                 [role |-> "tool", toolCallId |-> toolCall.id,
                  content |-> JSONStringify(result)])
           /\ Send(<<Ev("tool_result",
                        [id |-> "result-" \o ToString(messageIdCounter),
                         toolName |-> toolCall.name,
                         result |-> result, success |-> ~r.threw])>>)
    /\ messageIdCounter' = messageIdCounter + 1
    /\ toolCalls' = Tail(toolCalls)
    /\ pc' = AfterToolCall
    /\ UNCHANGED <<inputVars, wireVars, toolDeltas, failed, agentTools, iteration,
                   currentMessageId, accumulatedContent, accumulatedToolCalls, toolArgs,
                   modelCalls, callsLeft, textLeft>>

\* Mutant: the cap is reported only when it has been exceeded.
ReachedMaxStrict(it) == it > maxIterations

\* Line 1025: if (iteration >= maxIterations).
ReachedMax(it) == it >= maxIterations

\* Lines 1025-1043: the max-iterations error, then agent_complete with the
\* handler's component.
AfterLoop ==
    /\ pc = "exit"
    /\ LET updatedComponent == component
           complete == Ev("agent_complete",
                          [success |-> TRUE,
                           updatedState |->
                              [prompt |-> OrEmpty(updatedComponent.prompt),
                               structuredOutput |-> OrEmpty(updatedComponent.structuredOutput),
                               uiCode |-> OrEmpty(updatedComponent.uiCode)]])
       IN  IF ReachedMax(iteration)
           THEN Send(<<Ev("error", [message |-> "Agent reached maximum iterations"]),
                       complete>>)
           ELSE Send(<<complete>>)
    /\ pc' = "done"
    /\ UNCHANGED <<inputVars, wireVars, toolDeltas, failed, component, agentTools,
                   messages, messageIdCounter, iteration, currentMessageId,
                   accumulatedContent, accumulatedToolCalls, toolCalls, toolArgs,
                   modelCalls, callsLeft, textLeft>>

\* createSSEStream, line 331: the callback has returned; controller.close().
Close ==
    /\ pc = "done"
    /\ pc' = "closed"
    /\ UNCHANGED <<inputVars, wireVars, toolDeltas, failed, component, agentTools,
                   messages, messageIdCounter, iteration, currentMessageId,
                   accumulatedContent, accumulatedToolCalls, toolCalls, toolArgs, events,
                   modelCalls, callsLeft, textLeft, clientVars>>

(***************************************************************************)
(* Specification.                                                          *)
(***************************************************************************)
EditModes == [editPrompt : BOOLEAN, editData : BOOLEAN, editUICode : BOOLEAN]

\* The component while the one run a specification follows is in flight:
\* runAgentPrompt has set isRunning; its other runs are left out.
PageOfOneRun ==
    /\ isRunning = TRUE
    /\ runs = <<>>
    /\ now = 0

Init ==
    /\ pc = "start"
    /\ clientReady \in BOOLEAN
    /\ editModes \in EditModes
    /\ currentState = InitialState
    /\ env = [fetchOk |-> TRUE, transcriptLen |-> 100]
    /\ component = [prompt |-> Undefined, structuredOutput |-> Undefined,
                    uiCode |-> Undefined]
    /\ agentTools = <<>>
    /\ messages = <<>>
    /\ messageIdCounter = 0
    /\ iteration = 0
    /\ currentMessageId = ""
    /\ accumulatedContent = ""
    /\ accumulatedToolCalls = <<>>
    /\ toolCalls = <<>>
    /\ toolArgs = NoArgs
    /\ events = <<>>
    /\ modelCalls = 0
    /\ callsLeft = MaxCalls
    /\ textLeft = MaxText
    /\ failed = FALSE
    /\ toolInputs = ToolCallInputs
    /\ textInputs = Deltas
    /\ conversationRounds = <<[id |-> roundId, messages |-> <<>>]>>
    /\ currentMessageText = ""
    /\ callerState = InitialState
    /\ statusMessage = "Running agent..."
    /\ received = <<>>
    /\ toolDeltas = <<>>
    /\ wire = <<>>
    /\ buffer = <<>>
    /\ pendingUpdates = <<>>
    /\ PageOfOneRun

Next ==
    \/ Start
    \/ ModelCall
    \/ LoopExit
    \/ \E d \in textInputs : StreamText(d)
    \/ \E k \in toolInputs : StreamToolCall(k)
    \/ StreamThrow
    \/ StreamEnd
    \/ ToolCallParse
    \/ ToolExecute
    \/ AfterLoop
    \/ Close

Spec == Init /\ [][Next]_vars

\* The driver before Start, but for the request and the model's inputs.
DriverInit ==
    /\ pc = "start"
    /\ currentState = InitialState
    /\ component = [prompt |-> Undefined, structuredOutput |-> Undefined,
                    uiCode |-> Undefined]
    /\ agentTools = <<>>
    /\ messages = <<>>
    /\ messageIdCounter = 0
    /\ iteration = 0
    /\ currentMessageId = ""
    /\ accumulatedContent = ""
    /\ accumulatedToolCalls = <<>>
    /\ toolCalls = <<>>
    /\ toolArgs = NoArgs
    /\ events = <<>>
    /\ modelCalls = 0
    /\ failed = FALSE
    /\ toolDeltas = <<>>

\* The client when runAgentPrompt has added the round of the run to an
\* empty chat and the response has not begun.
HandlerInit ==
    /\ conversationRounds = <<[id |-> roundId, messages |-> <<>>]>>
    /\ currentMessageText = ""
    /\ callerState = InitialState
    /\ statusMessage = "Running agent..."
    /\ received = <<>>
    /\ wire = <<>>
    /\ buffer = <<>>
    /\ pendingUpdates = <<>>
    /\ PageOfOneRun

\* The state before Start, but for the request and the model's inputs.
RunInit ==
    /\ DriverInit
    /\ HandlerInit
    /\ callsLeft = MaxCalls
    /\ textLeft = MaxText

AllEnabled == [editPrompt |-> TRUE, editData |-> TRUE, editUICode |-> TRUE]

\* The tool calls of a run that edits all three fields of the draft.
EditInputs ==
    { [name |-> "edit_prompt", arguments |-> ArgsPrompt1],
      [name |-> "edit_prompt", arguments |-> ArgsPrompt2],
      [name |-> "edit_structured_output", arguments |-> ArgsSchemaOk],
      [name |-> "edit_structured_output", arguments |-> ArgsSchemaBad],
      [name |-> "edit_ui_code", arguments |-> ArgsCode1] }

\* Runs with every edit mode enabled whose model streams the edit calls.
EditInit ==
    /\ RunInit
    /\ clientReady \in BOOLEAN
    /\ editModes = AllEnabled
    /\ env = [fetchOk |-> TRUE, transcriptLen |-> 100]
    /\ toolInputs = EditInputs
    /\ textInputs = Deltas

EditSpec == EditInit /\ [][Next]_vars

\* One tool call for every tool the executor knows, and one for a name it
\* does not know.
ToolsInputs ==
    { [name |-> "read_current_component", arguments |-> ArgsEmpty],
      [name |-> "get_conversation_transcript", arguments |-> ArgsEmpty],
      [name |-> "test_component", arguments |-> ArgsEmpty],
      [name |-> "edit_prompt", arguments |-> ArgsPrompt1],
      [name |-> "edit_structured_output", arguments |-> ArgsSchemaOk],
      [name |-> "edit_structured_output", arguments |-> ArgsSchemaBad],
      [name |-> "edit_ui_code", arguments |-> ArgsCode1],
      [name |-> "no_such_tool", arguments |-> ArgsEmpty] }

\* Runs with every edit mode enabled whose model may call any tool.
ToolsInit ==
    /\ RunInit
    /\ clientReady = TRUE
    /\ editModes = AllEnabled
    /\ env = [fetchOk |-> TRUE, transcriptLen |-> 100]
    /\ toolInputs = ToolsInputs
    /\ textInputs = Deltas

ToolsSpec == ToolsInit /\ [][Next]_vars

\* Transcript lengths of the conversation store.
TranscriptLengths == {40, 100}

\* get_conversation_transcript without max_chars and with 0, 10, 23, 40.
TranscriptInputs ==
    { [name |-> "get_conversation_transcript", arguments |-> a] :
         a \in {ArgsEmpty, ArgsChars0, ArgsChars10, ArgsChars23, ArgsChars40} }

\* Runs whose model asks for the transcript; the fetch may fail.
TranscriptInit ==
    /\ RunInit
    /\ clientReady = TRUE
    /\ editModes = AllEnabled
    /\ env \in [fetchOk : BOOLEAN, transcriptLen : TranscriptLengths]
    /\ toolInputs = TranscriptInputs
    /\ textInputs = Deltas

TranscriptSpec == TranscriptInit /\ [][Next]_vars

(***************************************************************************)
(* Runs whose model streams its tool calls in fragments: the first delta   *)
(* of a position carries the id and the beginning of the name and of the   *)
(* arguments, the second the rest, and the positions interleave.           *)
(***************************************************************************)
\* Tool-call deltas the model may stream over a whole run of fragments.
MaxFragments == 4

FragmentInputs ==
    { [index |-> i, id |-> "call-" \o ToString(i), name |-> "edit_",
       arguments |-> "{\"new_prompt\":"] : i \in {0, 1} }
    \cup
    { [index |-> i, id |-> "", name |-> "prompt", arguments |-> "\"p1\"}"] : i \in {0, 1} }

FragmentInit ==
    /\ DriverInit
    /\ HandlerInit
    /\ callsLeft = MaxFragments
    /\ textLeft = MaxText
    /\ clientReady = TRUE
    /\ editModes = AllEnabled
    /\ env = [fetchOk |-> TRUE, transcriptLen |-> 100]
    /\ toolInputs = FragmentInputs
    /\ textInputs = Deltas

FragmentNext ==
    \/ Start
    \/ ModelCall
    \/ LoopExit
    \/ \E d \in textInputs : StreamText(d)
    \/ \E d \in toolInputs : StreamToolCallDelta(d)
    \/ StreamThrow
    \/ StreamEnd
    \/ ToolCallParse
    \/ ToolExecute
    \/ AfterLoop
    \/ Close

FragmentSpec == FragmentInit /\ [][FragmentNext]_vars

(***************************************************************************)
(* The client's handler on its own: the events of one run reach onEvent in  *)
(* any order and number.  A state updater is applied when it is passed to   *)
(* setConversationRounds, if none is queued, or queued for the next render, *)
(* as the React runtime decides.                                            *)
(***************************************************************************)
\* Events onEvent handles in a run of the handler.
MaxEvents == 3

\* The draft an agent_complete event carries.
EditedState == [prompt |-> "p1", structuredOutput |-> SchemaOk, uiCode |-> "u1"]

ClientEvents ==
    { Ev("message_start", [messageId |-> "msg-0"]),
      Ev("message_start", [messageId |-> "msg-1"]),
      Ev("message_chunk", [messageId |-> "msg-0", delta |-> "a"]),
      Ev("message_chunk", [messageId |-> "msg-0", delta |-> "b"]),
      Ev("message_chunk", [messageId |-> "msg-1", delta |-> "a"]),
      Ev("message_complete", [messageId |-> "msg-0", content |-> "a"]),
      Ev("tool_call", [id |-> "tool-1", toolName |-> "edit_prompt",
                       args |-> [NoArgs EXCEPT !.new_prompt = "p1"]]),
      Ev("tool_result", [id |-> "result-2", toolName |-> "edit_prompt",
                         result |-> [success |-> TRUE, reasoning |-> Undefined],
                         success |-> TRUE]),
      Ev("agent_complete", [success |-> TRUE, updatedState |-> EditedState]),
      Ev("error", [message |-> "stream failed"]) }

\* runAgent hands event e to the handler.
Receive(e) ==
    /\ Len(received) < MaxEvents
    /\ received' = Append(received, e)
    /\ LET c == onEvent([conversationRounds |-> conversationRounds,
                         currentMessageText |-> currentMessageText,
                         callerState |-> callerState,
                         statusMessage |-> statusMessage], e.event, e.data)
       IN  /\ currentMessageText' = c.currentMessageText
           /\ callerState' = c.callerState
           /\ statusMessage' = c.statusMessage
           /\ \/ /\ pendingUpdates = <<>>
                 /\ conversationRounds' = c.conversationRounds
                 /\ UNCHANGED pendingUpdates
              \/ /\ pendingUpdates' = pendingUpdates \o RoundsUpdate(e.event, e.data)
                 /\ UNCHANGED conversationRounds
    /\ UNCHANGED <<serverVars, wire, buffer>>

\* The component renders: the queued updaters are applied in order.
Render ==
    /\ pendingUpdates # <<>>
    /\ conversationRounds' =
          ApplyUpdates(conversationRounds, pendingUpdates, currentMessageText)
    /\ pendingUpdates' = <<>>
    /\ UNCHANGED <<serverVars, currentMessageText, callerState, statusMessage, received,
                   wire, buffer>>

\* The request has been sent; the chat holds an earlier round, whose message
\* ids start at msg-0 as those of every run do, and the round of this run.
ClientInit ==
    /\ DriverInit
    /\ clientReady = TRUE
    /\ editModes = AllEnabled
    /\ env = [fetchOk |-> TRUE, transcriptLen |-> 100]
    /\ toolInputs = {}
    /\ textInputs = {}
    /\ callsLeft = 0
    /\ textLeft = 0
    /\ conversationRounds =
          <<[id |-> "round-0",
             messages |-> <<[id |-> "msg-0", type |-> "assistant", content |-> "old"]>>],
            [id |-> roundId, messages |-> <<>>]>>
    /\ currentMessageText = ""
    /\ callerState = InitialState
    /\ statusMessage = "Running agent..."
    /\ received = <<>>
    /\ wire = <<>>
    /\ buffer = <<>>
    /\ pendingUpdates = <<>>
    /\ PageOfOneRun

ClientNext ==
    \/ \E e \in ClientEvents : Receive(e)
    \/ Render

ClientSpec == ClientInit /\ [][ClientNext]_vars

(***************************************************************************)
(* The wire: createSSEStream's send frames each event and enqueues the     *)
(* text; runAgent reads the response body in chunks cut anywhere and parses *)
(* the frames back.  A text is the sequence of its pieces, a line feed     *)
(* being a piece of its own; a read boundary falls between two pieces.     *)
(***************************************************************************)
\* Frames the server sends in a run of the wire.
MaxFrames == 2

RECURSIVE Concat(_)
Concat(pieces) == IF pieces = <<>> THEN "" ELSE Head(pieces) \o Concat(Tail(pieces))

\* The events sent over the wire; the delta of the last is a line feed.
WireEvents ==
    { Ev("message_start", [messageId |-> "msg-0"]),
      Ev("message_chunk", [messageId |-> "msg-0", delta |-> "a"]),
      Ev("message_chunk", [messageId |-> "msg-0", delta |-> "\n"]),
      Ev("error", [message |-> "stream failed"]) }

\* An event name, in two pieces.
NamePieces(event) ==
    CASE event = "message_start" -> <<"message_", "start">>
      [] event = "message_chunk" -> <<"message_", "chunk">>
      [] event = "error" -> <<"err", "or">>

\* JSON.stringify(data), in two pieces; JSON.stringify escapes a line feed
\* within a string, so the text has no line feed.
JSONPieces(data) ==
    CASE data = [messageId |-> "msg-0"] -> <<"{\"messageId\":", "\"msg-0\"}">>
      [] data = [messageId |-> "msg-0", delta |-> "a"] ->
            <<"{\"messageId\":\"msg-0\",", "\"delta\":\"a\"}">>
      [] data = [messageId |-> "msg-0", delta |-> "\n"] ->
            <<"{\"messageId\":\"msg-0\",", "\"delta\":\"\\n\"}">>
      [] data = [message |-> "stream failed"] ->
            <<"{\"message\":", "\"stream failed\"}">>

\* Line 325: `event: ${event}\ndata: ${JSON.stringify(data)}\n\n`.
Frame(event, data) ==
    <<"eve", "nt: ">> \o NamePieces(event) \o <<"\n">>
       \o <<"da", "ta: ">> \o JSONPieces(data) \o <<"\n", "\n">>

\* send(event, data): the frame is enqueued on the response body.
WireSend(e) ==
    /\ Len(events) < MaxFrames
    /\ events' = Append(events, e)
    /\ wire' = wire \o Frame(e.event, e.data)
    /\ UNCHANGED <<pc, inputVars, failed, component, agentTools, messages,
                   messageIdCounter, iteration, currentMessageId, accumulatedContent,
                   accumulatedToolCalls, toolCalls, toolArgs, modelCalls, callsLeft,
                   textLeft, toolDeltas, clientVars, buffer, pendingUpdates>>

\* text.split('\n'): the lines of a text, the last being what follows the
\* last line feed.
RECURSIVE Split(_, _)
Split(text, line) ==
    IF text = <<>> THEN <<line>>
    ELSE IF Head(text) = "\n" THEN <<line>> \o Split(Tail(text), <<>>)
    ELSE Split(Tail(text), Append(line, Head(text)))

\* line.startsWith(prefix), for a prefix of two pieces.
StartsWith(line, prefix) ==
    Len(line) >= 2 /\ line[1] \o line[2] = prefix

\* Lines 85-99: the lines of one read are gone through with currentEvent;
\* the calls of onEvent are collected in out.
RECURSIVE ParseLines(_, _, _)
ParseLines(lines, currentEvent, out) ==
    IF lines = <<>> THEN out
    ELSE LET line == Head(lines)
             rest == SubSeq(line, 3, Len(line))
         IN  IF StartsWith(line, "event: ")
             THEN ParseLines(Tail(lines), Concat(rest), out)
             ELSE IF StartsWith(line, "data: ")
             THEN IF currentEvent # ""
                  THEN ParseLines(Tail(lines), "",
                          IF JSONParse(Concat(rest)).ok
                          THEN Append(out, Ev(currentEvent, JSONParse(Concat(rest)).value))
                          ELSE out)
                  ELSE ParseLines(Tail(lines), currentEvent, out)
             ELSE ParseLines(Tail(lines), currentEvent, out)

\* Lines 77-99: reader.read() gives the next n pieces of the body; they are
\* appended to the buffer, the complete lines are parsed, with currentEvent
\* empty at first, and the rest stays in the buffer.
Read(n) ==
    LET lines == Split(buffer \o SubSeq(wire, 1, n), <<>>)
        out == ParseLines(SubSeq(lines, 1, Len(lines) - 1), "", <<>>)
        c == Deliver([conversationRounds |-> conversationRounds,
                      currentMessageText |-> currentMessageText,
                      callerState |-> callerState,
                      statusMessage |-> statusMessage], out)
    IN  /\ wire' = SubSeq(wire, n + 1, Len(wire))
        /\ buffer' = lines[Len(lines)]
        /\ received' = received \o out
        /\ conversationRounds' = c.conversationRounds
        /\ currentMessageText' = c.currentMessageText
        /\ callerState' = c.callerState
        /\ statusMessage' = c.statusMessage
        /\ UNCHANGED <<serverVars, pendingUpdates>>

WireInit ==
    /\ DriverInit
    /\ HandlerInit
    /\ clientReady = TRUE
    /\ editModes = AllEnabled
    /\ env = [fetchOk |-> TRUE, transcriptLen |-> 100]
    /\ toolInputs = {}
    /\ textInputs = {}
    /\ callsLeft = 0
    /\ textLeft = 0

WireNext ==
    \/ \E e \in WireEvents : WireSend(e)
    \/ \E n \in 1..Len(wire) : Read(n)

WireSpec == WireInit /\ [][WireNext]_vars

(***************************************************************************)
(* Runs whose model streams several text deltas, of two kinds, over its    *)
(* turns.                                                                  *)
(***************************************************************************)
\* Text deltas the model may stream over a whole run of text.
MaxDeltas == 3

TextDeltas == {"a", "b"}

TextInit ==
    /\ DriverInit
    /\ HandlerInit
    /\ callsLeft = MaxCalls
    /\ textLeft = MaxDeltas
    /\ clientReady = TRUE
    /\ editModes = AllEnabled
    /\ env = [fetchOk |-> TRUE, transcriptLen |-> 100]
    /\ toolInputs = {[name |-> "read_current_component", arguments |-> ArgsEmpty]}
    /\ textInputs = TextDeltas

TextSpec == TextInit /\ [][Next]_vars

(***************************************************************************)
(* The Agent component over several runs: the user starts runs from the    *)
(* chat input, each run's handler is fed the events of its own response,   *)
(* and the responses of the runs in flight interleave.  A state updater is *)
(* applied when it is passed.                                              *)
(***************************************************************************)
\* Calls of runAgentPrompt in a session.
MaxRuns == 2

\* What the user asks for: an edit of the prompt or of the UI code.
Requests == {"prompt", "uiCode"}

\* The events of the response to a request made with the draft state: a
\* turn of text with the edit's tool call, a turn without tool call, and
\* agent_complete with the edited draft.
Response(request, state) ==
    LET delta == IF request = "prompt" THEN "a" ELSE "b"
        toolName == IF request = "prompt" THEN "edit_prompt" ELSE "edit_ui_code"
        args == IF request = "prompt" THEN [NoArgs EXCEPT !.new_prompt = "p1"]
                ELSE [NoArgs EXCEPT !.new_code = "u1"]
        updatedState == IF request = "prompt" THEN [state EXCEPT !.prompt = "p1"]
                        ELSE [state EXCEPT !.uiCode = "u1"]
    IN  << Ev("message_start", [messageId |-> "msg-0"]),
           Ev("message_chunk", [messageId |-> "msg-0", delta |-> delta]),
           Ev("message_complete", [messageId |-> "msg-0", content |-> delta]),
           Ev("tool_call", [id |-> "tool-1", toolName |-> toolName, args |-> args]),
           Ev("tool_result", [id |-> "result-2", toolName |-> toolName,
                              result |-> [success |-> TRUE, reasoning |-> Undefined],
                              success |-> TRUE]),
           Ev("message_start", [messageId |-> "msg-3"]),
           Ev("message_complete", [messageId |-> "msg-3", content |-> ""]),
           Ev("agent_complete", [success |-> TRUE, updatedState |-> updatedState]) >>

\* Lines 240-273: runAgentPrompt sets isRunning, names the round after
\* Date.now(), which has not gone back and may not have advanced since it
\* was last read, appends the round, and sends the request with the draft
\* the page holds.
runAgentPrompt(request) ==
    /\ Len(runs) < MaxRuns
    /\ \E t \in {now, now + 1} :
          /\ now' = t
          /\ runs' = Append(runs,
                [roundId |-> "round-" \o ToString(t),
                 currentMessageText |-> "",
                 currentState |-> callerState,
                 response |-> Response(request, callerState),
                 handled |-> 0,
                 finished |-> FALSE])
          /\ conversationRounds' =
                Append(conversationRounds,
                       [id |-> "round-" \o ToString(t), messages |-> <<>>])
    /\ isRunning' = TRUE
    /\ statusMessage' = "Running agent..."
    /\ UNCHANGED <<pc, toolInputs, textInputs, clientReady, editModes, currentState, env,
                   failed, component, agentTools, messages, messageIdCounter, iteration,
                   currentMessageId, accumulatedContent, accumulatedToolCalls, toolCalls,
                   toolArgs, events, modelCalls, callsLeft, textLeft, toolDeltas,
                   currentMessageText, callerState, received, wireVars>>

\* Lines 749-753: the Send button calls handleChatSubmit; it is disabled
\* while isRunning.
ClickSend(request) ==
    /\ ~isRunning
    /\ runAgentPrompt(request)

\* Lines 726-731, 228-238: Enter in the chat input calls handleChatSubmit,
\* which returns early only for an empty input or a missing session.
PressEnter(request) == runAgentPrompt(request)

\* Lines 274-382: the handler of run r is called with the next event of its
\* response.
HandleEvent(r) ==
    /\ r \in DOMAIN runs
    /\ runs[r].handled < Len(runs[r].response)
    /\ LET e == runs[r].response[runs[r].handled + 1]
           c == onEventOfRun(runs[r].roundId,
                             [conversationRounds |-> conversationRounds,
                              currentMessageText |-> runs[r].currentMessageText,
                              callerState |-> callerState,
                              statusMessage |-> statusMessage], e.event, e.data)
       IN  /\ conversationRounds' = c.conversationRounds
           /\ callerState' = c.callerState
           /\ statusMessage' = c.statusMessage
           /\ runs' = [runs EXCEPT ![r].currentMessageText = c.currentMessageText,
                                   ![r].handled = @ + 1]
    /\ UNCHANGED <<pc, toolInputs, textInputs, clientReady, editModes, currentState, env,
                   failed, component, agentTools, messages, messageIdCounter, iteration,
                   currentMessageId, accumulatedContent, accumulatedToolCalls, toolCalls,
                   toolArgs, events, modelCalls, callsLeft, textLeft, toolDeltas,
                   currentMessageText, received, wireVars, isRunning, now>>

\* Lines 384-409: the response of run r has ended; runAgent returns and the
\* finally block clears isRunning.
FinishRun(r) ==
    /\ r \in DOMAIN runs
    /\ runs[r].handled = Len(runs[r].response)
    /\ ~runs[r].finished
    /\ runs' = [runs EXCEPT ![r].finished = TRUE]
    /\ isRunning' = FALSE
    /\ UNCHANGED <<pc, toolInputs, textInputs, clientReady, editModes, currentState, env,
                   failed, component, agentTools, messages, messageIdCounter, iteration,
                   currentMessageId, accumulatedContent, accumulatedToolCalls, toolCalls,
                   toolArgs, events, modelCalls, callsLeft, textLeft, toolDeltas,
                   clientVars, wireVars, now>>

\* The session is open, the chat is empty and no run has been started.
AgentInit ==
    /\ DriverInit
    /\ clientReady = TRUE
    /\ editModes = AllEnabled
    /\ env = [fetchOk |-> TRUE, transcriptLen |-> 100]
    /\ toolInputs = {}
    /\ textInputs = {}
    /\ callsLeft = 0
    /\ textLeft = 0
    /\ conversationRounds = <<>>
    /\ currentMessageText = ""
    /\ callerState = InitialState
    /\ statusMessage = ""
    /\ received = <<>>
    /\ wire = <<>>
    /\ buffer = <<>>
    /\ pendingUpdates = <<>>
    /\ isRunning = FALSE
    /\ runs = <<>>
    /\ now = 0

AgentNext ==
    \/ \E request \in Requests : ClickSend(request)
    \/ \E request \in Requests : PressEnter(request)
    \/ \E r \in 1..MaxRuns : HandleEvent(r)
    \/ \E r \in 1..MaxRuns : FinishRun(r)

AgentSpec == AgentInit /\ [][AgentNext]_vars

\* The run's scheduling: the callback runs on whenever the promise it awaits
\* has settled, so a step that can be taken is taken.
FairSpec == Spec /\ WF_vars(Next)

(***************************************************************************)
(* Properties.                                                             *)
(***************************************************************************)
IsTerminal(e) == e.event \in {"agent_complete", "error"}
Count(name) == Cardinality({i \in DOMAIN events : events[i].event = name})
LastEvent == events[Len(events)]
MaxIterationsMessage == "Agent reached maximum iterations"

\* The assistant messages of the history, one per turn whose stream ended.
AssistantTurns == SelectSeq(messages, LAMBDA m : m.role = "assistant")

\* No model call failed and every turn so far ended with tool calls.
EveryTurnUsedTools ==
    /\ ~failed
    /\ modelCalls >= 1
    /\ Len(AssistantTurns) = modelCalls
    /\ \A i \in DOMAIN AssistantTurns : AssistantTurns[i].toolCalls # <<>>

\* No model call failed and the last turn ended without any tool call.
LastTurnUsedNoTool ==
    /\ ~failed
    /\ modelCalls >= 1
    /\ Len(AssistantTurns) = modelCalls
    /\ AssistantTurns[modelCalls].toolCalls = <<>>

\* C1: a run's event sequence holds exactly one agent_complete or error
\* event, and it is the last event sent before the stream is closed.
C1_OneTerminalEventLast ==
    /\ \A i \in DOMAIN events : IsTerminal(events[i]) => i = Len(events)
    /\ pc = "closed" => Len(events) > 0 /\ IsTerminal(LastEvent)

\* C2: the driver makes at most maxIterations model calls, and every run
\* ends: the stream is closed after a terminal event.
C2_BoundedAndTerminates ==
    /\ [](modelCalls <= maxIterations)
    /\ <>(pc = "closed" /\ Len(events) > 0 /\ IsTerminal(LastEvent))

C2_Witness ==
    pc = "closed" /\ EveryTurnUsedTools /\ modelCalls = maxIterations

Succeeded(i) ==
    /\ i < Len(events)
    /\ events[i].event = "tool_call"
    /\ events[i + 1].event = "tool_result"
    /\ "success" \in DOMAIN events[i + 1].data.result
    /\ events[i + 1].data.result.success

EditsOf(toolName) ==
    {i \in DOMAIN events : Succeeded(i) /\ events[i].data.toolName = toolName}

Max(S) == CHOOSE x \in S : \A y \in S : y <= x

LastEdit(toolName, arg, initial) ==
    IF EditsOf(toolName) = {} THEN initial
    ELSE events[Max(EditsOf(toolName))].data.args[arg]

EditedDraft ==
    [prompt |-> LastEdit("edit_prompt", "new_prompt", currentState.prompt),
     structuredOutput |->
        LastEdit("edit_structured_output", "new_schema", currentState.structuredOutput),
     uiCode |-> LastEdit("edit_ui_code", "new_code", currentState.uiCode)]

\* C4: when a run stops at the cap, the draft sent back and the draft the
\* page holds after onStateChange have, field by field, the value of the
\* last successful edit of the run.
C4_CapKeepsEdits ==
    (pc = "closed" /\ EveryTurnUsedTools) =>
        /\ LastEvent.event = "agent_complete"
        /\ LastEvent.data.updatedState = EditedDraft
        /\ callerState = EditedDraft

\* An edit made in the last iteration of a run stopped at the cap.
C4_Witness ==
    /\ pc = "closed"
    /\ EveryTurnUsedTools
    /\ Len(events) >= 4
    /\ Succeeded(Len(events) - 3)
    /\ events[Len(events) - 3].data.toolName = "edit_prompt"
    /\ callerState.prompt = "p2"
    /\ \E i \in DOMAIN events : Succeeded(i) /\ events[i].data.args.new_prompt = "p1"

EventNames == [i \in DOMAIN events |-> events[i].event]

\* message_start, any number of message_chunk, message_complete.
IsTextTurn(names) ==
    /\ Len(names) >= 2
    /\ names[1] = "message_start"
    /\ names[Len(names)] = "message_complete"
    /\ \A i \in 2..(Len(names) - 1) : names[i] = "message_chunk"

FirstTurnUsedNoTool ==
    /\ Len(AssistantTurns) >= 1
    /\ AssistantTurns[1].toolCalls = <<>>

\* C5: a run whose first turn accumulates no tool call makes one model
\* call and sends message_start, message_chunk*, message_complete,
\* agent_complete and nothing else.
C5_SingleTurnRun ==
    FirstTurnUsedNoTool =>
        /\ modelCalls = 1
        /\ pc \in {"exit", "done", "closed"}
        /\ pc = "exit" => IsTextTurn(EventNames)
        /\ pc \in {"done", "closed"} =>
              /\ Len(events) >= 3
              /\ IsTextTurn(SubSeq(EventNames, 1, Len(events) - 1))
              /\ LastEvent.event = "agent_complete"

C5_Witness ==
    pc = "closed" /\ FirstTurnUsedNoTool /\ Count("message_chunk") >= 1

\* C6: a turn that ends without tool calls, at any iteration up to and
\* including maxIterations, ends the run with agent_complete carrying the
\* final draft and with no error event.
C6_NoToolTurnCompletes ==
    (pc = "closed" /\ LastTurnUsedNoTool) =>
        /\ Count("error") = 0
        /\ LastEvent.event = "agent_complete"
        /\ LastEvent.data.updatedState = EditedDraft

\* C7: when the client is missing, chat.send rejects or the stream throws,
\* at any iteration, the run sends exactly one error event, no
\* agent_complete, and nothing after the error event.
C7_FatalFailureSendsOneError ==
    failed =>
        /\ pc \in {"done", "closed"}
        /\ Count("error") = 1
        /\ Count("agent_complete") = 0
        /\ LastEvent.event = "error"

\* A stream that throws in a later iteration, after a turn with tool calls.
C7_Witness ==
    /\ pc = "closed"
    /\ failed
    /\ modelCalls = maxIterations
    /\ Count("tool_result") >= 1
    /\ LastEvent.data.message = "stream failed"

Range(f) == {f[i] : i \in DOMAIN f}
Flag(b) == IF b THEN 1 ELSE 0
Position(seq, x) == CHOOSE i \in DOMAIN seq : seq[i] = x

\* C8: for each of the eight flag combinations the offered list is the
\* three read-only tools in order, then edit_prompt, edit_structured_output
\* and edit_ui_code, each present iff its flag is set.
C8_GateOffersEnabledToolsOnly ==
    (pc # "start" /\ clientReady) =>
        /\ Len(agentTools) =
              3 + Flag(editModes.editPrompt) + Flag(editModes.editData)
                + Flag(editModes.editUICode)
        /\ SubSeq(agentTools, 1, 3) =
              <<"read_current_component", "get_conversation_transcript", "test_component">>
        /\ ("edit_prompt" \in Range(agentTools)) <=> editModes.editPrompt
        /\ ("edit_structured_output" \in Range(agentTools)) <=> editModes.editData
        /\ ("edit_ui_code" \in Range(agentTools)) <=> editModes.editUICode
        /\ \A i, j \in DOMAIN agentTools : i # j => agentTools[i] # agentTools[j]
        /\ (editModes.editPrompt /\ editModes.editData) =>
              Position(agentTools, "edit_prompt")
                 < Position(agentTools, "edit_structured_output")
        /\ (editModes.editPrompt /\ editModes.editUICode) =>
              Position(agentTools, "edit_prompt") < Position(agentTools, "edit_ui_code")
        /\ (editModes.editData /\ editModes.editUICode) =>
              Position(agentTools, "edit_structured_output")
                 < Position(agentTools, "edit_ui_code")

C8_Witness ==
    /\ pc = "loop"
    /\ editModes = [editPrompt |-> TRUE, editData |-> FALSE, editUICode |-> TRUE]
    /\ agentTools = ReadOnlyTools \o <<"edit_prompt", "edit_ui_code">>

\* toolName is an edit tool whose edit flag is off in this run.
DisabledTool(toolName) ==
    \/ toolName = "edit_prompt" /\ ~editModes.editPrompt
    \/ toolName = "edit_structured_output" /\ ~editModes.editData
    \/ toolName = "edit_ui_code" /\ ~editModes.editUICode

\* C9: a tool call that names an edit tool whose flag is disabled is
\* rejected: its tool_result reports failure, and the draft field of a
\* disabled flag keeps the value of the request's currentState.
C9_DisabledEditRejected ==
    /\ \A i \in DOMAIN events :
          (events[i].event = "tool_result" /\ DisabledTool(events[i].data.toolName))
             => ~events[i].data.success
    /\ (pc \notin {"start"} /\ clientReady) =>
          /\ ~editModes.editPrompt => component.prompt = currentState.prompt
          /\ ~editModes.editData =>
                component.structuredOutput = currentState.structuredOutput
          /\ ~editModes.editUICode => component.uiCode = currentState.uiCode

\* The tool calls the turns of the history asked for.
RECURSIVE SumCalls(_)
SumCalls(turns) ==
    IF turns = <<>> THEN 0 ELSE Len(Head(turns).toolCalls) + SumCalls(Tail(turns))

\* An error event that is neither the cap's report nor a failed model call.
ToolErrorEvent(i) ==
    /\ events[i].event = "error"
    /\ i > 1
    /\ events[i - 1].event \in {"tool_call", "tool_result"}
    /\ ~(events[i].data.message = MaxIterationsMessage /\ modelCalls = maxIterations)
    /\ ~(events[i].data.message = "chat.send failed"
         /\ modelCalls = Len(AssistantTurns) + 1)

\* C10: a tool call whose arguments do not parse, or whose execution
\* throws, does not abort the run: no error event is sent for it, every
\* tool call of the turn still gets its tool_result, and after the turn the
\* driver makes the next model call unless the cap is reached.
C10_ToolFailureIsolated ==
    /\ \A i \in DOMAIN events : ~ToolErrorEvent(i)
    /\ pc \notin {"tools", "exec"} =>
          /\ Count("tool_result") = SumCalls(AssistantTurns)
          /\ Count("tool_call") = SumCalls(AssistantTurns)
    /\ (Len(events) > 0 /\ LastEvent.event = "tool_result") =>
          \/ pc = "tools"
          \/ pc = "loop"
          \/ pc = "exit" /\ modelCalls = maxIterations
    /\ (pc = "exit" /\ modelCalls < maxIterations) => LastTurnUsedNoTool

\* A parse failure and a throwing tool in one turn, then the next turn.
C10_Witness ==
    \E i \in DOMAIN events :
        /\ i + 4 <= Len(events)
        /\ events[i].event = "tool_result"
        /\ ~events[i].data.success
        /\ "rawArguments" \in DOMAIN events[i].data.result
        /\ events[i + 1].event = "tool_call"
        /\ events[i + 2].event = "tool_result"
        /\ ~events[i + 2].data.success
        /\ events[i + 3].event = "message_start"

\* The argument text of the tool call the driver handles next does not parse.
ParseFails ==
    /\ pc = "tools"
    /\ ~JSONParse(IF Head(toolCalls).arguments = "" THEN "{}"
                  ELSE Head(toolCalls).arguments).ok

\* What the driver does with a tool call whose arguments do not parse: the
\* executor is not entered, the draft is unchanged, one tool message with the
\* call's id is appended to the history and tool_call, tool_result are
\* sent; the tool_result is marked as failed and its result, which is also
\* the content of the tool message, has the parse error and the raw text.
ParseFailureHandled ==
    LET toolCall == Head(toolCalls)
        message == JSONParse(toolCall.arguments).message
        sent == events'[Len(events')]
        recorded == messages'[Len(messages')]
    IN  /\ pc' # "exec"
        /\ toolArgs' = toolArgs
        /\ component' = component
        /\ toolCalls' = Tail(toolCalls)
        /\ Len(events') = Len(events) + 2
        /\ events'[Len(events) + 1].event = "tool_call"
        /\ sent.event = "tool_result"
        /\ sent.data.toolName = toolCall.name
        /\ ~sent.data.success
        /\ "error" \in DOMAIN sent.data.result
        /\ sent.data.result.error = "Failed to parse arguments: " \o message
        /\ "rawArguments" \in DOMAIN sent.data.result
        /\ sent.data.result.rawArguments = toolCall.arguments
        /\ Len(messages') = Len(messages) + 1
        /\ recorded.role = "tool"
        /\ recorded.toolCallId = toolCall.id
        /\ recorded.content = JSONStringify(sent.data.result)

\* C11 as stated: for argument text that does not parse the executor is not
\* invoked, the draft is unchanged, and the result recorded in the history
\* and sent in tool_result carries success false, the parse error message
\* and the raw argument text.
C11_ParseFailureResultHasSuccessFalse ==
    [][ParseFails =>
          /\ ParseFailureHandled
          /\ "success" \in DOMAIN events'[Len(events')].data.result
          /\ ~events'[Len(events')].data.result.success]_vars

\* C11 as amended: the same, except that success false is a property of the
\* tool_result event and not of the result: the result, in the event and in
\* the history, has the properties error and rawArguments only.
C11_ParseFailureRecorded ==
    [][ParseFails =>
          /\ ParseFailureHandled
          /\ DOMAIN events'[Len(events')].data.result = {"error", "rawArguments"}]_vars

\* A cut-off edit_ui_code call has been answered and the draft's code is
\* the request's.
C11_Witness ==
    /\ editModes.editUICode
    /\ pc \in {"tools", "loop"}
    /\ Len(events) > 0
    /\ LastEvent.event = "tool_result"
    /\ LastEvent.data.toolName = "edit_ui_code"
    /\ "rawArguments" \in DOMAIN LastEvent.data.result
    /\ LastEvent.data.result.rawArguments = ArgsCodeCut
    /\ component.uiCode = currentState.uiCode

\* The driver is about to execute the tool call at the head of the turn's
\* calls, and it is a call of toolName.
Executing(toolName) == pc = "exec" /\ Head(toolCalls).name = toolName

\* C12: edit_structured_output with a newSchema that does not parse as JSON
\* returns success false with the parse error and leaves the three draft
\* fields unchanged; with one that parses it returns success true and the
\* draft's structuredOutput is newSchema afterwards.
C12_SchemaEditValidated ==
    [][Executing("edit_structured_output") =>
          LET newSchema == toolArgs.new_schema
              result == events'[Len(events')].data.result
          IN  /\ events'[Len(events')].event = "tool_result"
              /\ IF JSONParse(newSchema).ok
                 THEN /\ result.success
                      /\ component'.structuredOutput = newSchema
                 ELSE /\ ~result.success
                      /\ result.error =
                            "Invalid JSON schema: " \o JSONParse(newSchema).message
                      /\ component' = component]_vars

\* An invalid schema has been refused after a valid one was written.
C12_Witness ==
    /\ Len(events) > 0
    /\ LastEvent.event = "tool_result"
    /\ LastEvent.data.toolName = "edit_structured_output"
    /\ "error" \in DOMAIN LastEvent.data.result
    /\ ~LastEvent.data.result.success
    /\ component.structuredOutput = SchemaOk
    /\ currentState.structuredOutput # SchemaOk

Min(a, b) == IF a <= b THEN a ELSE b

\* The tool_result at i answers a get_conversation_transcript call that
\* fetched the transcript.
TranscriptFetched(i) ==
    /\ i > 1
    /\ events[i].event = "tool_result"
    /\ events[i].data.toolName = "get_conversation_transcript"
    /\ "metadata" \in DOMAIN events[i].data.result

\* The limit m of the call answered at i: max_chars, or 5000 when the call
\* has no max_chars.
RequestedLimit(i) ==
    LET maxChars == events[i - 1].data.args.max_chars
    IN  IF maxChars = <<>> THEN 5000 ELSE maxChars[1]

\* C13: on a transcript of L >= 1 characters with limit m the metadata has
\* truncated = (L > m), returnedCharacters = min(m, L), totalCharacters = L
\* and percentageFetched = round(100 * returnedCharacters / L) followed by
\* '%'; returnedCharacters never exceeds totalCharacters or m.
C13_TranscriptMetadata ==
    \A i \in DOMAIN events :
        TranscriptFetched(i) =>
            LET m == RequestedLimit(i)
                L == env.transcriptLen
                metadata == events[i].data.result.metadata
            IN  /\ metadata.truncated = (L > m)
                /\ metadata.returnedCharacters = Min(m, L)
                /\ metadata.totalCharacters = L
                /\ metadata.percentageFetched =
                      ToString((200 * Min(m, L) + L) \div (2 * L)) \o "%"
                /\ metadata.returnedCharacters <= metadata.totalCharacters
                /\ metadata.returnedCharacters <= m

\* The round of the run, and the message last appended to it.
ActiveRound == conversationRounds[CHOOSE i \in DOMAIN conversationRounds :
                                     conversationRounds[i].id = roundId]
LastMessage == ActiveRound.messages[Len(ActiveRound.messages)]

\* The events received after the first k are message_chunk events for the
\* message that the message_start received as k-th event started; once the
\* updaters are applied, that message is the last of the round.
ChunksSince(k) ==
    /\ received[k].event = "message_start"
    /\ \A j \in (k + 1)..Len(received) :
          /\ received[j].event = "message_chunk"
          /\ received[j].data.messageId = received[k].data.messageId

\* The deltas of a sequence of message_chunk events, concatenated in order.
RECURSIVE ConcatDeltas(_)
ConcatDeltas(chunks) ==
    IF chunks = <<>> THEN "" ELSE Head(chunks).data.delta \o ConcatDeltas(Tail(chunks))

\* C14: after message_start for m and any sequence of message_chunk events
\* for m, handled in arrival order, the content of the round's message m is
\* the concatenation of the deltas in that order.
C14_ContentIsConcatenation ==
    \A k \in DOMAIN received :
        (ChunksSince(k) /\ pendingUpdates = <<>>) =>
            /\ ActiveRound.messages # <<>>
            /\ LastMessage.id = received[k].data.messageId
            /\ LastMessage.content = ConcatDeltas(SubSeq(received, k + 1, Len(received)))

\* The deltas a and b in this order have given the content ab, not ba.
C14_Witness ==
    /\ Len(received) = 3
    /\ ChunksSince(1)
    /\ received[2].data.delta = "a"
    /\ received[3].data.delta = "b"
    /\ pendingUpdates = <<>>
    /\ Len(ActiveRound.messages) = 1
    /\ ActiveRound.messages[1].content = "ab"
    /\ ActiveRound.messages[1].content # "ba"

\* The events received after the first k are a sequence of n message_chunk
\* events for the message started by the k-th, received twice.
ReplayedSince(k, n) ==
    /\ n >= 1
    /\ Len(received) = k + 2 * n
    /\ ChunksSince(k)
    /\ \A j \in 1..n : received[k + j].data.delta = received[k + n + j].data.delta

\* C15: handling message_chunk is idempotent under replay: when the same
\* sequence of message_chunk events for a message is delivered a second
\* time, the content of the message is what it was after the first delivery.
C15_ReplayKeepsContent ==
    \A k \in DOMAIN received : \A n \in 1..Len(received) :
        (ReplayedSince(k, n) /\ pendingUpdates = <<>>) =>
            /\ LastMessage.id = received[k].data.messageId
            /\ LastMessage.content = ConcatDeltas(SubSeq(received, k + 1, k + n))

\* The last event handled, in a step that handles one.
Handled == received'[Len(received')]

\* The message at j of round i has another content after the step, and the
\* step applies a message_chunk for its id.
ContentSetByChunk(i, j) ==
    LET before == conversationRounds[i].messages[j]
        after == conversationRounds'[i].messages[j]
    IN  /\ [after EXCEPT !.content = before.content] = before
        /\ \/ /\ received' # received
              /\ Handled.event = "message_chunk"
              /\ Handled.data.messageId = before.id
           \/ \E u \in DOMAIN pendingUpdates :
                 /\ pendingUpdates[u].op = "content"
                 /\ pendingUpdates[u].messageId = before.id

\* C17: the round log is append-only: in every step no round is removed,
\* and each round's message list after the step has the messages of the
\* list before it as a prefix, in the same order and with the same ids;
\* only the content of a message may differ, and only by a message_chunk
\* for its id.
C17_RoundLogAppendOnly ==
    [][/\ Len(conversationRounds') >= Len(conversationRounds)
       /\ \A i \in DOMAIN conversationRounds :
             /\ conversationRounds'[i].id = conversationRounds[i].id
             /\ Len(conversationRounds'[i].messages) >= Len(conversationRounds[i].messages)
             /\ \A j \in DOMAIN conversationRounds[i].messages :
                   /\ conversationRounds'[i].messages[j].id =
                         conversationRounds[i].messages[j].id
                   /\ \/ conversationRounds'[i].messages[j] =
                            conversationRounds[i].messages[j]
                      \/ ContentSetByChunk(i, j)]_vars

\* A chunk has set the content of the second message of the round; the
\* first and the earlier round's message are as they were.
C17_Witness ==
    /\ Len(conversationRounds) = 2
    /\ conversationRounds[1].messages[1].content = "old"
    /\ Len(ActiveRound.messages) = 2
    /\ ActiveRound.messages[1].type = "tool_call"
    /\ ActiveRound.messages[2].id = "msg-0"
    /\ ActiveRound.messages[2].content = "a"

\* C18: handling agent_complete passes updatedState to onStateChange, so
\* that the page's draft has its three fields, and leaves every round's
\* message list as it was.
C18_CompleteUpdatesDraftOnly ==
    [][(received' # received /\ Handled.event = "agent_complete") =>
          /\ callerState'.prompt = Handled.data.updatedState.prompt
          /\ callerState'.structuredOutput = Handled.data.updatedState.structuredOutput
          /\ callerState'.uiCode = Handled.data.updatedState.uiCode
          /\ conversationRounds' = conversationRounds]_vars

\* agent_complete has been handled after a message of the round.
C18_Witness ==
    /\ Len(received) >= 2
    /\ received[Len(received)].event = "agent_complete"
    /\ callerState = EditedState
    /\ callerState # InitialState
    /\ Len(ActiveRound.messages) >= 1

\* The fragments of the current stream tagged with position index, in
\* arrival order, and their names and arguments concatenated.
FragmentsOf(index) == SelectSeq(toolDeltas, LAMBDA d : d.index = index)

RECURSIVE ConcatNames(_)
ConcatNames(deltas) ==
    IF deltas = <<>> THEN "" ELSE Head(deltas).name \o ConcatNames(Tail(deltas))

RECURSIVE ConcatArguments(_)
ConcatArguments(deltas) ==
    IF deltas = <<>> THEN ""
    ELSE Head(deltas).arguments \o ConcatArguments(Tail(deltas))

\* C16: within a turn, for every position index i, the accumulated name
\* and arguments of the pending tool call at i are the concatenation, in
\* arrival order, of the name and arguments fragments tagged with i,
\* whatever the interleaving with the fragments of other indices; a
\* position without fragments has no pending tool call.
C16_FragmentsAccumulatePerIndex ==
    pc = "stream" =>
        \A index \in 0..MaxFragments :
            IF FragmentsOf(index) = <<>>
            THEN \/ Len(accumulatedToolCalls) < index + 1
                 \/ ~accumulatedToolCalls[index + 1].defined
            ELSE /\ Len(accumulatedToolCalls) >= index + 1
                 /\ accumulatedToolCalls[index + 1].defined
                 /\ accumulatedToolCalls[index + 1].name =
                       ConcatNames(FragmentsOf(index))
                 /\ accumulatedToolCalls[index + 1].arguments =
                       ConcatArguments(FragmentsOf(index))

\* Two edit_prompt calls streamed in alternating fragments, position 1
\* first.
C16_Witness ==
    /\ pc = "stream"
    /\ Len(toolDeltas) = 4
    /\ toolDeltas[1].index = 1
    /\ toolDeltas[2].index = 0
    /\ toolDeltas[3].index = 1
    /\ toolDeltas[4].index = 0
    /\ Len(accumulatedToolCalls) = 2
    /\ accumulatedToolCalls[1].name = "edit_prompt"
    /\ accumulatedToolCalls[1].arguments = ArgsPrompt1
    /\ accumulatedToolCalls[2].name = "edit_prompt"
    /\ accumulatedToolCalls[2].arguments = ArgsPrompt1

\* C19: whenever agent_complete is sent, its updatedState is the request's
\* currentState with each field replaced by the argument of the last
\* successful edit of that field in the run; a field without a successful
\* edit has its initial value.
C19_CompleteCarriesEditedDraft ==
    \A i \in DOMAIN events :
        events[i].event = "agent_complete" =>
            /\ i = Len(events)
            /\ events[i].data.updatedState = EditedDraft

\* A run that wrote a valid schema and then had an invalid one refused has
\* completed: the schema is the valid one, the prompt and the code are the
\* request's.
C19_Witness ==
    /\ Len(events) > 0
    /\ LastEvent.event = "agent_complete"
    /\ LastEvent.data.updatedState =
          [prompt |-> currentState.prompt, structuredOutput |-> SchemaOk,
           uiCode |-> currentState.uiCode]
    /\ \E i \in DOMAIN events :
          /\ events[i].event = "tool_result"
          /\ events[i].data.toolName = "edit_structured_output"
          /\ ~events[i].data.result.success
          /\ \E j \in 1..(i - 1) :
                Succeeded(j) /\ events[j].data.toolName = "edit_structured_output"

\* C20: for every sequence of frames the server sends and every way the
\* text is split into reads, runAgent calls onEvent once per frame, in the
\* order sent, with the event name and the payload sent: what has been
\* handed to onEvent is a prefix of what was sent, and all of it once the
\* whole text is read.
C20_WireRoundTrip ==
    /\ Len(received) <= Len(events)
    /\ \A i \in DOMAIN received :
          /\ received[i].event = events[i].event
          /\ received[i].data = events[i].data
    /\ wire = <<>> => Len(received) = Len(events)

\* The ids the events of the run carry: messageId of message_start, id of
\* tool_call and of tool_result.
EventId(i) ==
    IF events[i].event = "message_start" THEN events[i].data.messageId
    ELSE events[i].data.id

IdEvents ==
    {i \in DOMAIN events : events[i].event \in {"message_start", "tool_call", "tool_result"}}

\* The messages of the run's round, and those of them made from the three
\* kinds of event that carry an id.
RoundMessages == ActiveRound.messages

IdMessages ==
    {j \in DOMAIN RoundMessages :
        RoundMessages[j].type \in {"assistant", "tool_call", "tool_result"}}

\* C21: the ids carried by the message_start, tool_call and tool_result
\* events of a run never repeat; the messages the round holds for them have
\* pairwise distinct ids, so at most one tool_call message has a given id;
\* and every tool_result message is the message appended right after a
\* tool_call message of the same tool, so a tool_call message has at most
\* one tool_result message, later in the same round.
C21_IdsDistinct ==
    /\ \A i, j \in IdEvents : i # j => EventId(i) # EventId(j)
    /\ \A i, j \in IdMessages : i # j => RoundMessages[i].id # RoundMessages[j].id
    /\ \A j \in DOMAIN RoundMessages :
          RoundMessages[j].type = "tool_result" =>
              /\ j > 1
              /\ RoundMessages[j - 1].type = "tool_call"
              /\ RoundMessages[j - 1].metadata.toolName = RoundMessages[j].metadata.toolName

\* A round of two turns: the first made two tool calls that both have their
\* result, the second has begun.
C21_Witness ==
    /\ Cardinality({j \in DOMAIN RoundMessages : RoundMessages[j].type = "tool_call"}) = 2
    /\ Cardinality({j \in DOMAIN RoundMessages : RoundMessages[j].type = "tool_result"}) = 2
    /\ Cardinality({j \in DOMAIN RoundMessages : RoundMessages[j].type = "assistant"}) = 2

\* The message_start events before event i, and the last of them: the
\* beginning of the turn event i belongs to.
StartsBefore(i) == {j \in 1..(i - 1) : events[j].event = "message_start"}
TurnStart(i) == Max(StartsBefore(i))

\* C22: every message_chunk and message_complete for messageId m comes
\* after message_start for m; a tool_call event comes after the
\* message_complete of its turn; every tool_call event is immediately
\* followed by a tool_result event of the same tool, and while it is the
\* last event the driver is executing that tool; a tool_result event comes
\* only right after a tool_call event.
C22_CausalOrder ==
    \A i \in DOMAIN events :
        /\ events[i].event \in {"message_chunk", "message_complete"} =>
              \E j \in StartsBefore(i) : events[j].data.messageId = events[i].data.messageId
        /\ events[i].event = "tool_call" =>
              /\ StartsBefore(i) # {}
              /\ \E c \in (TurnStart(i) + 1)..(i - 1) :
                    /\ events[c].event = "message_complete"
                    /\ events[c].data.messageId = events[TurnStart(i)].data.messageId
              /\ IF i < Len(events)
                 THEN /\ events[i + 1].event = "tool_result"
                      /\ events[i + 1].data.toolName = events[i].data.toolName
                 ELSE Executing(events[i].data.toolName)
        /\ events[i].event = "tool_result" =>
              /\ i > 1
              /\ events[i - 1].event = "tool_call"

\* A turn with text and two tool calls: the arguments of one did not parse,
\* the other tool threw.
C22_Witness ==
    /\ \E i \in DOMAIN events : events[i].event = "message_chunk"
    /\ \E i \in DOMAIN events :
          /\ events[i].event = "tool_result"
          /\ "rawArguments" \in DOMAIN events[i].data.result
    /\ \E i \in DOMAIN events :
          /\ events[i].event = "tool_result"
          /\ events[i].data.result = [error |-> "Unknown tool: no_such_tool"]

\* Events named name in the event log evs.
CountIn(evs, name) == Cardinality({i \in DOMAIN evs : evs[i].event = name})

\* Model calls whose stream has begun and not ended, and tool calls
\* reported and not yet answered, in the event log evs.
StreamsOpen(evs) == CountIn(evs, "message_start") - CountIn(evs, "message_complete")
ToolsOpen(evs) == CountIn(evs, "tool_call") - CountIn(evs, "tool_result")

ToolMessages == SelectSeq(messages, LAMBDA m : m.role = "tool")

\* C23: at most one model call or one tool execution is in flight; a model
\* call is issued only when no stream is open, no tool call of the turn is
\* left and every tool call of the history has its result; a tool call
\* starts only when no other is open; and the draft is written only by the
\* one tool call in execution, which ends in that step.
C23_OneInFlight ==
    [][ /\ StreamsOpen(events) \in {0, 1}
        /\ ToolsOpen(events) \in {0, 1}
        /\ StreamsOpen(events) + ToolsOpen(events) <= 1
        /\ modelCalls' # modelCalls =>
              /\ StreamsOpen(events) = 0
              /\ ToolsOpen(events) = 0
              /\ toolCalls = <<>>
              /\ Len(ToolMessages) = SumCalls(AssistantTurns)
        /\ CountIn(events', "tool_call") > CountIn(events, "tool_call") =>
              /\ CountIn(events', "tool_call") = CountIn(events, "tool_call") + 1
              /\ StreamsOpen(events) = 0
              /\ ToolsOpen(events) = 0
        /\ (component' # component /\ pc # "start") =>
              /\ ToolsOpen(events) = 1
              /\ ToolsOpen(events') = 0
              /\ CountIn(events', "tool_result") = CountIn(events, "tool_result") + 1
      ]_vars

\* The second model call is in flight after a turn whose two tool calls
\* both wrote the prompt.
C23_Witness ==
    /\ pc = "stream"
    /\ modelCalls = 2
    /\ CountIn(events, "tool_result") = 2
    /\ \A i \in DOMAIN events : events[i].event = "tool_call" => Succeeded(i)
    /\ component.prompt # currentState.prompt

\* The history after its first two messages is a sequence of turns: an
\* assistant message, then one tool-role message per tool call of that
\* message, in order, each with the id of its tool call.
RECURSIVE TurnsWellFormed(_)
TurnsWellFormed(rest) ==
    IF rest = <<>> THEN TRUE
    ELSE /\ Head(rest).role = "assistant"
         /\ Len(rest) >= 1 + Len(Head(rest).toolCalls)
         /\ \A k \in 1..Len(Head(rest).toolCalls) :
               /\ rest[1 + k].role = "tool"
               /\ rest[1 + k].toolCallId = Head(rest).toolCalls[k].id
         /\ TurnsWellFormed(SubSeq(rest, 2 + Len(Head(rest).toolCalls), Len(rest)))

\* C24: whenever a model call is about to be issued or its stream is open,
\* the history is the system message, the user message, and then for each
\* earlier turn its assistant message followed by exactly one tool-role
\* message per tool call of that message, in the same order and with that
\* tool call's id.
C24_HistoryStructure ==
    pc \in {"loop", "stream"} =>
        /\ Len(messages) >= 2
        /\ messages[1].role = "system"
        /\ messages[2].role = "user"
        /\ TurnsWellFormed(SubSeq(messages, 3, Len(messages)))
        /\ Len(AssistantTurns) = modelCalls - (IF pc = "stream" THEN 1 ELSE 0)

\* The second model call is issued with a history whose first turn made two
\* tool calls: the arguments of one did not parse and the other tool threw.
C24_Witness ==
    /\ pc = "stream"
    /\ modelCalls = 2
    /\ Len(messages) = 5
    /\ \E i \in {4, 5} : "rawArguments" \in DOMAIN messages[i].content[2]
    /\ \E i \in {4, 5} :
          messages[i].content = JSONStringify([error |-> "Unknown tool: no_such_tool"])

\* The position indices of the current stream's fragments, each once, in
\* the order in which its first fragment arrived.
RECURSIVE FirstArrivals(_, _)
FirstArrivals(deltas, seen) ==
    IF deltas = <<>> THEN <<>>
    ELSE IF Head(deltas).index \in seen THEN FirstArrivals(Tail(deltas), seen)
    ELSE <<Head(deltas).index>>
            \o FirstArrivals(Tail(deltas), seen \cup {Head(deltas).index})

ArrivalOrder == FirstArrivals(toolDeltas, {})

\* The tool_call events sent since the last message_complete, and the
\* tool-role messages appended since the last assistant message.
LastComplete == Max({0} \cup {i \in DOMAIN events : events[i].event = "message_complete"})
TurnCalls ==
    SelectSeq(SubSeq(events, LastComplete + 1, Len(events)),
              LAMBDA e : e.event = "tool_call")
LastAssistant == Max({0} \cup {i \in DOMAIN messages : messages[i].role = "assistant"})
TurnToolMessages == SubSeq(messages, LastAssistant + 1, Len(messages))

\* C25, as stated: the k-th tool call parsed, executed and reported in a
\* turn is the pending tool call whose first fragment was the k-th to
\* arrive.
C25_ProcessedInArrivalOrder ==
    (pc \in {"tools", "exec", "loop"} /\ toolDeltas # <<>>) =>
        /\ \A k \in DOMAIN TurnCalls :
              TurnCalls[k].data.toolName = accumulatedToolCalls[ArrivalOrder[k] + 1].name
        /\ \A k \in DOMAIN TurnToolMessages :
              TurnToolMessages[k].toolCallId = accumulatedToolCalls[ArrivalOrder[k] + 1].id

\* The position indices of the current stream's fragments in ascending
\* order.
RECURSIVE Ascending(_)
Ascending(S) ==
    IF S = {} THEN <<>>
    ELSE LET least == CHOOSE x \in S : \A y \in S : x <= y
         IN  <<least>> \o Ascending(S \ {least})

PositionOrder == Ascending({toolDeltas[i].index : i \in DOMAIN toolDeltas})

\* C25, amended: the k-th tool call parsed, executed and reported in a turn
\* is the pending tool call with the k-th lowest position index, whatever
\* the order in which the fragments arrived; when the turn's tool calls are
\* done, every position that received a fragment has been processed.
C25_ProcessedInPositionOrder ==
    (pc \in {"tools", "exec", "loop"} /\ toolDeltas # <<>>) =>
        /\ Len(TurnCalls) <= Len(PositionOrder)
        /\ \A k \in DOMAIN TurnCalls :
              TurnCalls[k].data.toolName = accumulatedToolCalls[PositionOrder[k] + 1].name
        /\ Len(TurnToolMessages) <= Len(TurnCalls)
        /\ \A k \in DOMAIN TurnToolMessages :
              TurnToolMessages[k].toolCallId = accumulatedToolCalls[PositionOrder[k] + 1].id
        /\ pc = "loop" => Len(TurnToolMessages) = Len(PositionOrder)

\* The first fragment of position 1 arrived before the first fragment of
\* position 0, and both tool calls have been processed: call-0, then call-1.
C25_Witness ==
    /\ pc = "loop"
    /\ ArrivalOrder = <<1, 0>>
    /\ Len(TurnToolMessages) = 2
    /\ TurnToolMessages[1].toolCallId = "call-0"
    /\ TurnToolMessages[2].toolCallId = "call-1"

\* The tool_result event a step has sent.
ResultSent == events'[Len(events')]

\* C26: a step of the executor changes at most the draft field of its
\* tool: edit_prompt returns success and writes its argument to prompt
\* only, edit_ui_code returns success and writes its argument to uiCode
\* only, edit_structured_output leaves the draft as it is or writes its
\* argument to structuredOutput only, and read_current_component,
\* get_conversation_transcript, test_component and an unknown tool name
\* leave the draft as it is.  No other step after the first changes it.
C26_ToolWritesOwnField ==
    [][ /\ Executing("edit_prompt") =>
              /\ component' = [component EXCEPT !.prompt = toolArgs.new_prompt]
              /\ ResultSent.data.success
              /\ ResultSent.data.result.success
        /\ Executing("edit_ui_code") =>
              /\ component' = [component EXCEPT !.uiCode = toolArgs.new_code]
              /\ ResultSent.data.success
              /\ ResultSent.data.result.success
        /\ Executing("edit_structured_output") =>
              \/ component' = component
              \/ component' = [component EXCEPT !.structuredOutput = toolArgs.new_schema]
        /\ (pc = "exec" /\ Head(toolCalls).name
                \notin {"edit_prompt", "edit_ui_code", "edit_structured_output"}) =>
              component' = component
        /\ pc \notin {"start", "exec"} => component' = component
      ]_vars

\* A schema edit was refused and a test was run: both results are out and
\* the draft is still the request's.
C26_Witness ==
    /\ pc = "loop"
    /\ component = currentState
    /\ \E i \in DOMAIN events :
          /\ events[i].event = "tool_result"
          /\ events[i].data.toolName = "edit_structured_output"
          /\ ~events[i].data.result.success
    /\ \E i \in DOMAIN events :
          /\ events[i].event = "tool_result"
          /\ events[i].data.toolName = "test_component"

\* The message_chunk events for messageId m among the first n events.
ChunksFor(m, n) ==
    SelectSeq(SubSeq(events, 1, n),
              LAMBDA e : e.event = "message_chunk" /\ e.data.messageId = m)

\* C27: the content of every message_complete event for messageId m is the
\* concatenation, in emission order, of the deltas of the message_chunk
\* events emitted for m, all of which precede it; and while a stream is
\* open every text delta consumed so far has been forwarded: the text
\* accumulated is the concatenation of the chunks sent for the turn.
C27_CompleteIsConcatenation ==
    /\ \A i \in DOMAIN events :
          events[i].event = "message_complete" =>
              /\ events[i].data.content =
                    ConcatDeltas(ChunksFor(events[i].data.messageId, i))
              /\ ChunksFor(events[i].data.messageId, Len(events)) =
                    ChunksFor(events[i].data.messageId, i)
    /\ pc = "stream" =>
          accumulatedContent = ConcatDeltas(ChunksFor(currentMessageId, Len(events)))

\* Two turns have ended: the first streamed "a" then "b", the second "a".
C27_Witness ==
    \E i, j \in DOMAIN events :
        /\ i < j
        /\ events[i].event = "message_complete"
        /\ events[i].data.content = "ab"
        /\ events[j].event = "message_complete"
        /\ events[j].data.content = "a"

\* The result r of a tool call reports a failure: its success property is
\* false, or it is one of the driver's failure results, which have an
\* error property and no success property.
ReportsFailure(r) ==
    \/ "success" \in DOMAIN r /\ ~r.success
    \/ "success" \notin DOMAIN r /\ "error" \in DOMAIN r

\* C28: the success field of every tool_result event is false when the
\* arguments did not parse, the tool threw or the tool returned a result
\* with success false, and true otherwise.
C28_SuccessReflectsOutcome ==
    \A i \in DOMAIN events :
        events[i].event = "tool_result" =>
            events[i].data.success = ~ReportsFailure(events[i].data.result)

\* The messages the first n events of a response produce in a chat that
\* holds only the round id.
RECURSIVE HandledAlone(_, _, _)
HandledAlone(id, c, response) ==
    IF response = <<>> THEN c
    ELSE HandledAlone(id, onEventOfRun(id, c, Head(response).event, Head(response).data),
                      Tail(response))

AloneMessages(r) ==
    HandledAlone(runs[r].roundId,
                 [conversationRounds |-> <<[id |-> runs[r].roundId, messages |-> <<>>]>>,
                  currentMessageText |-> "",
                  callerState |-> runs[r].currentState,
                  statusMessage |-> ""],
                 SubSeq(runs[r].response, 1, runs[r].handled)).conversationRounds[1].messages

\* C29: whatever the interleaving of the events of the runs in flight, the
\* round created for a run holds exactly the messages the events of that
\* run handled so far produce alone.  Runs append their rounds to an empty
\* chat, so the round of the r-th run is the r-th.
C29_RoundsIsolated ==
    \A r \in DOMAIN runs : conversationRounds[r].messages = AloneMessages(r)

\* C30: at most one run is in flight, and each run starts from the draft
\* the agent_complete of the run before it left.
RunsInFlight == {r \in DOMAIN runs : ~runs[r].finished}

C30_OneRunAtATime ==
    /\ Cardinality(RunsInFlight) <= 1
    /\ \A r \in DOMAIN runs :
          r > 1 => runs[r].currentState =
                      runs[r - 1].response[Len(runs[r - 1].response)].data.updatedState

====
